------------------------------ MODULE VncSystem ------------------------------
(***************************************************************************)
(* The display's VNC client connected to a VNC server that follows RFB 3.3 *)
(* (external), through a USB serial port the host can close and reopen.    *)
(* The client is VncClient, unchanged; this module gives the bytes it      *)
(* reads, the buttons and the control lines a meaning.                     *)
(***************************************************************************)
EXTENDS VncClient

CONSTANTS Scripts,        \* sequences of updates a server may have to show
          AuthTypes,      \* authentication schemes it may ask for
          AuthResults,    \* answers it may give to the authentication word
          NameLength,     \* length of the desktop name
          MaxBells,       \* bound: bells (messages the client does not know)
          MaxSessions,    \* bound: times the host opens the port
          Buttons,        \* the buttons the user presses
          MaxPresses,     \* bound: times one is pressed with none held
          FifoSurvives,   \* bytes in the USB endpoint outlive a close
          PatientHost,    \* the host reopens only after the close was noticed
          PromptHost      \* the host reads before usb_serial_putchar gives up

Rfb == INSTANCE Rfb WITH TileSize <- Tile

\* What the server writes is bytes
ASSUME ServerAssumption ==
    /\ AuthTypes \subseteq Byte /\ AuthResults \subseteq Byte
    /\ NameLength \in Uints
    /\ \A s \in Scripts :
         /\ Len(s) \in Nat
         /\ \A k \in 1..Len(s) : Rfb!UpdateEncoding(s[k]) \in Seq(Byte)
\* An update that keeps to the protocol is an RFB message, and its pixels can be
\* counted in an unsigned long
ASSUME UpdateAssumption ==
    \A s \in Scripts : \A k \in 1..Len(s) :
      Rfb!LawfulUpdate(s[k]) =>
        /\ Rfb!WellFormedUpdate(s[k])
        /\ \A i \in 1..Len(s[k]) : 2 * (s[k][i].w * s[k][i].h) < UlongRange
ASSUME UserAssumption == Buttons \subseteq Keys /\ MaxPresses \in Nat

VARIABLES
    updates,      \* the updates the server has to show, in order
    srv,          \* what the server is waiting for
    requested,    \* there is an unanswered update request
    updateNo,     \* number of updates sent in this session
    sent,         \* bytes in front of and in the stream of this session
    ends,         \* positions in the stream at which a message ends
    updateEnds,   \* updateEnds[k]: where the k-th update ends
    sessions, bells,
    base,         \* what the display showed when the session began
    presses,      \* times a button went down with none held
    keysSeen      \* key events the server has read, counted to MaxPresses + 1

srvVars == <<updates, srv, requested, updateNo, sent, ends, updateEnds, sessions, bells,
             base, presses, keysSeen>>
allVars == <<vars, srvVars>>

clientKept == <<pc, lastControlState, buf, connVars, rectVars, tileVars,
                lcdVars, keyVars>>

\* Bytes of the stream the client has parsed
Parsed == sent - Len(rx) - Len(buf)

SystemInit ==
    /\ Init
    /\ updates \in Scripts
    /\ srv = "closed"
    /\ requested = FALSE
    /\ updateNo = 0
    /\ sent = 0
    /\ ends = {0}
    /\ updateEnds = <<>>
    /\ base = screen
    /\ sessions = 0 /\ bells = 0 /\ presses = 0 /\ keysSeen = 0

-----------------------------------------------------------------------------
(* The server *)

\* Messages go onto the stream; bounds are the positions where they end
Send(bytes, bounds) ==
    /\ rx' = rx \o bytes
    /\ sent' = sent + Len(bytes)
    /\ ends' = ends \union {sent + b : b \in bounds}

\* The server reads one message and moves on
Receive(message, from, to) ==
    /\ srv = from /\ toServer # <<>> /\ Head(toServer) = message
    /\ toServer' = Tail(toServer)
    /\ srv' = to

Quiet == UNCHANGED <<clientKept, control, pins, sessions, bells, base, presses, updates>>
NoUpdate == UNCHANGED <<updateNo, updateEnds>>

ServerVersion ==
    /\ \E t \in AuthTypes :
         /\ Receive("version", "version",
                    CASE t = 1 -> "clientInit" [] t = 2 -> "authWord" [] OTHER -> "refused")
         /\ IF t = 2 THEN Send(<<0, 0, 0, 2>> \o Rfb!Zeros(16), {4, 20})
                     ELSE Send(<<0, 0, 0, t>>, {4})
    /\ Quiet /\ NoUpdate /\ UNCHANGED <<requested, keysSeen>>

ServerAuthWord ==
    /\ \E r \in AuthResults :
         /\ Receive("authWord", "authWord", IF r = 0 THEN "clientInit" ELSE "refused")
         /\ Send(<<0, 0, 0, r>>, {4})
    /\ Quiet /\ NoUpdate /\ UNCHANGED <<requested, keysSeen>>

ServerClientInit ==
    /\ Receive("clientInit", "clientInit", "pixelFormat")
    /\ Send(Rfb!Zeros(20) \o <<0, 0>> \o Rfb!Word(NameLength)
              \o Rfb!Zeros(NameLength), {24, 24 + NameLength})
    /\ Quiet /\ NoUpdate /\ UNCHANGED <<requested, keysSeen>>

ServerSetup ==
    /\ \/ Receive("pixelFormat", "pixelFormat", "encodings")
       \/ Receive("encodings", "encodings", "fullRefresh")
    /\ Quiet /\ NoUpdate
    /\ UNCHANGED <<rx, sent, ends, requested, keysSeen>>

ServerRequest ==
    /\ \/ Receive("fullRefresh", "fullRefresh", "running")
       \/ Receive("refresh", "running", "running")
    /\ requested' = TRUE
    /\ Quiet /\ NoUpdate
    /\ UNCHANGED <<rx, sent, ends, keysSeen>>

KeyEvents == {KeyOf[k] : k \in Keys}

ServerKey ==
    /\ \E m \in KeyEvents : Receive(m, "running", "running")
    /\ keysSeen' = IF keysSeen > MaxPresses THEN keysSeen ELSE keysSeen + 1
    /\ Quiet /\ NoUpdate
    /\ UNCHANGED <<rx, sent, ends, requested>>

\* An update goes out when one is requested and there is something to show
ServerUpdate ==
    /\ srv = "running" /\ requested /\ updateNo < Len(updates)
    /\ LET bytes == Rfb!UpdateEncoding(updates[updateNo + 1])
       IN /\ Send(bytes, {Len(bytes)})
          /\ updateEnds' = Append(updateEnds, sent + Len(bytes))
    /\ updateNo' = updateNo + 1
    /\ requested' = FALSE
    /\ Quiet /\ UNCHANGED <<toServer, srv, keysSeen>>

\* A server may also ring the bell
ServerBell ==
    /\ srv = "running" /\ bells < MaxBells
    /\ bells' = bells + 1
    /\ Send(<<2>>, {1})
    /\ NoUpdate
    /\ UNCHANGED <<clientKept, control, pins, sessions, base, presses,
                   updates, toServer, srv, requested, keysSeen>>

Server ==
    \/ ServerVersion \/ ServerAuthWord \/ ServerClientInit \/ ServerSetup
    \/ ServerRequest \/ ServerKey \/ ServerUpdate

-----------------------------------------------------------------------------
(* The host's serial port, and the user *)

\* The port is opened: DTR and RTS go on, the server greets the client
HostOpen ==
    /\ srv = "closed" /\ sessions < MaxSessions
    /\ PatientHost => lastControlState = 0 /\ pc # "answer"
    /\ sessions' = sessions + 1
    /\ control' = 3
    /\ srv' = "version"
    /\ rx' = rx \o Rfb!ProtocolVersion
    /\ LET stale == Len(buf) + Len(rx)
       IN sent' = stale + 12 /\ ends' = {0, stale, stale + 12}
    /\ updateNo' = 0 /\ updateEnds' = <<>> /\ requested' = FALSE
    /\ base' = screen
    /\ toServer' = IF FifoSurvives THEN toServer ELSE <<>>
    /\ UNCHANGED <<clientKept, pins, bells, presses, keysSeen, updates>>

\* The port is closed: what the endpoint holds stays there, the rest is lost
HostClose ==
    /\ srv # "closed" /\ sessions < MaxSessions
    /\ PatientHost => lastControlState = control
    /\ control' = 0
    /\ srv' = "closed"
    /\ \E n \in 0..Len(rx) :
         /\ n > 0 => FifoSurvives
         /\ rx' = SubSeq(rx, 1, n)
    /\ toServer' = <<>>
    /\ requested' = FALSE
    /\ UNCHANGED <<clientKept, pins, updateNo, sent, ends, updateEnds,
                   sessions, bells, base, presses, keysSeen, updates>>

Press ==
    /\ \E k \in Buttons \ pins : pins' = pins \union {k}
    /\ presses' = presses + (IF pins = {} THEN 1 ELSE 0)
    /\ presses' <= MaxPresses
    /\ UNCHANGED <<clientKept, rx, toServer, control, srv, requested, updateNo,
                   sent, ends, updateEnds, sessions, bells, base, keysSeen,
                   updates>>

ReleaseButton ==
    /\ \E k \in pins : pins' = pins \ {k}
    /\ UNCHANGED <<clientKept, rx, toServer, control, srvVars>>

\* There is room for a message, even the longest, when the program writes one
RoomInTime == pc = "respond" => Room >= MAXIMUM_VNCMESSAGE_SIZE

Client ==
    /\ PromptHost /\ srv # "closed" => RoomInTime
    /\ MainLoop
    /\ UNCHANGED srvVars

SystemNext ==
    \/ Client \/ Server \/ ServerBell \/ HostOpen \/ HostClose
    \/ Press \/ ReleaseButton

SystemSpec == SystemInit /\ [][SystemNext]_allVars

\* Some of the bytes on their way are read
ReadSome == Client /\ Len(rx') < Len(rx)

\* The program's loop keeps running, USB delivers to a program that keeps
\* polling, the server reads what it is sent and answers a request when it has
\* something to show, the port is opened; keys, closes and bells need not
\* happen.
FairSystemSpec ==
    /\ SystemSpec
    /\ WF_allVars(Client) /\ SF_allVars(ReadSome)
    /\ WF_allVars(Server) /\ WF_allVars(ServerUpdate)
    /\ WF_allVars(HostOpen)

-----------------------------------------------------------------------------
(* Properties *)

\* The tile of pixel p lies wholly on the display; the others are dropped
TileFits(r, p) ==
    LET q == Rfb!InTile(r, p)
    IN /\ p[1] - q[1] + Tile <= SCREEN_WIDTH \/ r.x + r.w <= SCREEN_WIDTH
       /\ p[2] - q[2] + Tile <= SCREEN_HEIGHT \/ r.y + r.h <= SCREEN_HEIGHT

\* The client draws pixel p of rectangle r: it drops raw rectangles, and takes
\* a CopyRect from the stream without copying anything
Draws(r, p) == r.enc = 5 /\ TileFits(r, p)

\* The server's picture, and the pixels of it that the client has not drawn
\* since they were last sent, after rectangle r
ToShow(view, r) ==
    [picture |-> Rfb!Painted(view.picture, r),
     stale |-> {p \in Pixels : IF Rfb!Inside(r, p) THEN ~Draws(r, p) ELSE p \in view.stale}]

\* The same after each rectangle of update u
Views(view, u) ==
    LET after[i \in 0..Len(u)] == IF i = 0 THEN view ELSE ToShow(after[i - 1], u[i])
    IN after

\* And after each update of the session
Expected ==
    LET after[k \in 0..Len(updates)] ==
          IF k = 0 THEN [picture |-> base, stale |-> {}]
          ELSE Views(after[k - 1], updates[k])[Len(updates[k])]
    IN after

\* Updates that have been parsed to their end
UpdatesParsed == Cardinality({k \in DOMAIN updateEnds : updateEnds[k] <= Parsed})

\* The server has kept to RFB and to the encodings the client asked for
Lawful == \A k \in 1..updateNo : Rfb!LawfulUpdate(updates[k])

\* Framing: however the stream is cut into pieces, the client looks for the
\* start of a message only where the server started one.
Aligned ==
    /\ srv # "closed" /\ Lawful
    /\ VNCstate \notin {"PROCESSINGUPDATE", "DEAD", "AUTHFAILED"}
    => Parsed \in ends

\* The client is between two updates of a server that keeps to the protocol
UpToDate ==
    /\ srv # "closed" /\ Lawful
    /\ VNCstate \in {"CONNECTED", "CONNECTED_REFRESH", "WAITFORUPDATE"}

\* Between updates every pixel is what RFB makes of it, whatever was sent
\* before it and over it, except those last sent in a form that the client does
\* not draw: as raw or CopyRect rectangle, or in a tile that is partly outside.
PictureExact ==
    UpToDate =>
      LET view == Expected[UpdatesParsed]
      IN \A p \in Pixels \ view.stale : screen[p] = view.picture[p]

\* Every rectangle of u is on the display and in an encoding asked for
AsRequested(u) ==
    \A i \in DOMAIN u :
      /\ u[i].enc \in encodingTypeMessage
      /\ u[i].x + u[i].w <= SCREEN_WIDTH /\ u[i].y + u[i].h <= SCREEN_HEIGHT

\* The client asks for no encoding but one that it draws (vnc.c: "requests
\* hextile encoding only"): what is sent in an encoding that it asked for is
\* on the display.
RequestedShown ==
    UpToDate /\ (\A k \in 1..updateNo : AsRequested(updates[k]))
      => screen = Expected[UpdatesParsed].picture

\* Whatever the cuts of the stream, nothing a server may send makes the client
\* write outside hextileBuffer.
TileBufferSafe ==
    srv # "closed" /\ Lawful /\ VNCstate = "PROCESSINGUPDATE" => pc # "wild"

\* The server only ever finds messages RFB allows at that point, across the
\* client's one-message-a-pass sending and across sessions.
NoProtocolError ==
    /\ srv # "closed" /\ toServer # <<>>
    => Head(toServer) \in IF srv = "running" THEN {"refresh"} \union KeyEvents ELSE {srv}

\* One press is one key event: nothing is repeated while a button is held or
\* resent after it went out.
KeyPerPress ==
    Cardinality({i \in DOMAIN toServer : toServer[i] \in KeyEvents}) + keysSeen
      + (IF keypress = "none" THEN 0 ELSE 1) <= presses

\* When Vnc_StateMachine has met something it cannot handle, the system is
\* reset (main.c: "reset system").
ErrorResets ==
    (VNCstate \in {"DEAD", "AUTHFAILED"}) ~> (VNCstate = "NOTCONNECTED")

\* The client keeps asking, also when keys are sent in place of requests and
\* after a reconnect, until every update of the server has been parsed.
AllShownEventually ==
    <>[](updateNo = Len(updates) /\ Parsed = sent /\ VNCstate = "CONNECTED_REFRESH")

\* A key press never stays in the client.
KeyLeaves == \A k \in Keys : (keypress = k) ~> (keypress = "none")
=============================================================================
