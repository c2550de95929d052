--------------------------- MODULE VncSystemProofs ---------------------------
(***************************************************************************)
(* The client connected to a server.  Three results: the system implements *)
(* the client against any environment, so that what VncClientProofs proves *)
(* holds of it; every key event the server reads or will read is a press   *)
(* of its own; and the server never meets a message out of place.          *)
(*                                                                         *)
(* The last one rests on Session, which ties what the server waits for to  *)
(* the client's state, its send state, the messages between them and the   *)
(* number of bytes still to be parsed, and on Lines, which says that a     *)
(* session begins with a client that is reset.                             *)
(***************************************************************************)
EXTENDS VncSystem, VncClientProofs, FunctionTheorems

-----------------------------------------------------------------------------
(* The server, the host and the user are an environment of the client *)

\* Everything the server writes is bytes.
LEMMA ServerBytes ==
    /\ \A t \in Byte : <<0, 0, 0, t>> \in Seq(Byte)
    /\ \A n \in Nat : Rfb!Zeros(n) \in Seq(Byte) /\ Len(Rfb!Zeros(n)) = n
    /\ Rfb!Word(NameLength) \in Seq(Byte) /\ Len(Rfb!Word(NameLength)) = 2
    /\ Rfb!ProtocolVersion \in Seq(Byte) /\ Len(Rfb!ProtocolVersion) = 12
<1>1. \A t \in Byte : <<0, 0, 0, t>> \in Seq(Byte)
  BY DEF Byte
<1>2. ASSUME NEW n \in Nat
      PROVE  Rfb!Zeros(n) \in Seq(Byte) /\ Len(Rfb!Zeros(n)) = n
  <2>1. Rfb!Zeros(n) = [i \in 1..n |-> 0] /\ 0 \in Byte
    BY DEF Rfb!Zeros, Byte
  <2>2. Rfb!Zeros(n) \in [1..n -> Byte]
    BY <2>1
  <2> QED
    BY <2>2, LenProperties
<1>3. Rfb!Word(NameLength) \in Seq(Byte) /\ Len(Rfb!Word(NameLength)) = 2
  <2>0. NameLength \in Uints
    BY ServerAssumption
  <2>1. NameLength \in Int /\ 0 <= NameLength /\ NameLength <= 65535
    BY <2>0, UintMax DEF Uints
  <2>2. NameLength \div 256 \in 0..255 /\ NameLength % 256 \in 0..255
    BY <2>1
  <2> QED
    BY <2>2 DEF Rfb!Word, Byte
<1>4. Rfb!ProtocolVersion \in Seq(Byte) /\ Len(Rfb!ProtocolVersion) = 12
  BY DEF Rfb!ProtocolVersion, Byte
<1> QED
  BY <1>1, <1>2, <1>3, <1>4

\* The counters of the system.
Counters ==
    /\ updates \in Scripts /\ updateNo \in Nat
    /\ presses \in Nat /\ keysSeen \in Nat

\* A message at the front of the queue is read.
LEMMA ReceiveTail ==
    ASSUME TypeOK, NEW m, NEW from, NEW to, Receive(m, from, to)
    PROVE  toServer' \in Seq(Messages)
BY HeadTailProperties DEF Receive, TypeOK

\* What is sent behind bytes are bytes again.
LEMMA SendBytes ==
    ASSUME TypeOK, NEW bytes \in Seq(Byte), NEW bounds, Send(bytes, bounds)
    PROVE  rx' \in Seq(Byte)
BY ConcatProperties DEF Send, TypeOK

\* The bytes of the server's initialisation message.
LEMMA InitMessage ==
    Rfb!Zeros(20) \o <<0, 0>> \o Rfb!Word(NameLength) \o Rfb!Zeros(NameLength) \in Seq(Byte)
<1>1. Rfb!Zeros(20) \in Seq(Byte) /\ <<0, 0>> \in Seq(Byte) /\ Rfb!Word(NameLength) \in Seq(Byte)
  BY ServerBytes DEF Byte
<1>2. Rfb!Zeros(NameLength) \in Seq(Byte)
  BY ServerBytes, ServerAssumption, UintNat
<1> QED
  BY <1>1, <1>2, ConcatProperties

\* The bytes of the server's choice of authentication.
LEMMA AuthMessage ==
    /\ <<0, 0, 0, 2>> \o Rfb!Zeros(16) \in Seq(Byte)
    /\ Len(<<0, 0, 0, 2>> \o Rfb!Zeros(16)) = 20
    /\ (<<0, 0, 0, 2>> \o Rfb!Zeros(16))[4] = 2
<1>1. <<0, 0, 0, 2>> \in Seq(Byte)
  BY DEF Byte
<1>2. Rfb!Zeros(16) \in Seq(Byte) /\ Len(Rfb!Zeros(16)) = 16
  BY ServerBytes
<1>3. <<0, 0, 0, 2>> \o Rfb!Zeros(16) \in Seq(Byte)
  BY <1>1, <1>2, ConcatProperties
<1>4. Len(<<0, 0, 0, 2>>) = 4 /\ <<0, 0, 0, 2>>[4] = 2
  OBVIOUS
<1>5. ASSUME NEW scheme \in Seq(Byte), NEW z \in Seq(Byte), Len(scheme) = 4, Len(z) = 16
      PROVE  Len(scheme \o z) = 20 /\ (scheme \o z)[4] = scheme[4]
  <2>1. /\ Len(scheme \o z) = Len(scheme) + Len(z)
        /\ \A i \in 1..(Len(scheme) + Len(z)) :
             (scheme \o z)[i] = IF i <= Len(scheme) THEN scheme[i] ELSE z[i - Len(scheme)]
    BY ConcatProperties
  <2>2. 4 \in 1..(Len(scheme) + Len(z))
    BY <1>5
  <2>3. Len(scheme \o z) = 20
    BY <1>5, <2>1
  <2>4. (scheme \o z)[4] = IF 4 <= Len(scheme) THEN scheme[4] ELSE z[4 - Len(scheme)]
    BY <2>1, <2>2, Zenon
  <2>5. 4 <= Len(scheme)
    BY <1>5
  <2> QED
    BY <2>3, <2>4, <2>5, Zenon
<1> QED
  BY <1>1, <1>2, <1>3, <1>4, <1>5

\* The server writes bytes and reads messages, and does nothing else to the
\* client.
LEMMA ServerIsEnvironment ==
    ASSUME TypeOK, Counters, Server \/ ServerBell
    PROVE  Environment /\ Counters'
<1>1. control \in 0..3 /\ pins \in SUBSET Keys /\ rx \in Seq(Byte) /\ toServer \in Seq(Messages)
  BY DEF TypeOK
<1> USE DEF clientKept
<1>2. CASE ServerVersion
  <2>1. PICK t \in AuthTypes :
          /\ Receive("version", "version",
                     CASE t = 1 -> "clientInit" [] t = 2 -> "authWord" [] OTHER -> "refused")
          /\ IF t = 2 THEN Send(<<0, 0, 0, 2>> \o Rfb!Zeros(16), {4, 20})
                      ELSE Send(<<0, 0, 0, t>>, {4})
    BY <1>2 DEF ServerVersion
  <2>2. toServer' \in Seq(Messages)
    BY <2>1, ReceiveTail
  <2>3. t \in Byte
    BY ServerAssumption
  <2>4. rx' \in Seq(Byte)
    BY <2>1, <2>3, SendBytes, ServerBytes, AuthMessage
  <2> QED
    BY <1>1, <1>2, <2>2, <2>4 DEF ServerVersion, Environment, Quiet, NoUpdate, Counters
<1>3. CASE ServerAuthWord
  <2>1. PICK r \in AuthResults :
          /\ Receive("authWord", "authWord", IF r = 0 THEN "clientInit" ELSE "refused")
          /\ Send(<<0, 0, 0, r>>, {4})
    BY <1>3 DEF ServerAuthWord
  <2>2. toServer' \in Seq(Messages)
    BY <2>1, ReceiveTail
  <2>3. r \in Byte
    BY ServerAssumption
  <2>4. rx' \in Seq(Byte)
    BY <2>1, <2>3, SendBytes, ServerBytes
  <2> QED
    BY <1>1, <1>3, <2>2, <2>4 DEF ServerAuthWord, Environment, Quiet, NoUpdate, Counters
<1>4. CASE ServerClientInit
  <2>1. toServer' \in Seq(Messages)
    BY <1>4, ReceiveTail DEF ServerClientInit
  <2>2. rx' \in Seq(Byte)
    BY <1>4, InitMessage, SendBytes DEF ServerClientInit
  <2> QED
    BY <1>1, <1>4, <2>1, <2>2 DEF ServerClientInit, Environment, Quiet, NoUpdate, Counters
<1>5. CASE ServerSetup \/ ServerRequest \/ ServerKey
  <2>1. toServer' \in Seq(Messages)
    BY <1>5, ReceiveTail DEF ServerSetup, ServerRequest, ServerKey
  <2>2. keysSeen' \in Nat
    BY <1>5, UserAssumption DEF ServerSetup, ServerRequest, ServerKey, Counters
  <2> QED
    BY <1>1, <1>5, <2>1, <2>2 DEF ServerSetup, ServerRequest, ServerKey, Environment,
       Quiet, NoUpdate, Counters
<1>6. CASE ServerUpdate
  <2> DEFINE bytes == Rfb!UpdateEncoding(updates[updateNo + 1])
  <2>1. bytes \in Seq(Byte)
    <3>1. Len(updates) \in Nat /\ updateNo + 1 \in 1..Len(updates)
      BY <1>6, ServerAssumption DEF ServerUpdate, Counters
    <3> QED
      BY <3>1, ServerAssumption DEF Counters
  <2>2. Send(bytes, {Len(bytes)})
    BY <1>6 DEF ServerUpdate
  <2> HIDE DEF bytes
  <2>3. rx' \in Seq(Byte)
    BY <2>1, <2>2, SendBytes
  <2> QED
    BY <1>1, <1>6, <2>3 DEF ServerUpdate, Environment, Quiet, Counters
<1>7. CASE ServerBell
  <2>1. <<2>> \in Seq(Byte)
    BY DEF Byte
  <2>2. rx' \in Seq(Byte)
    BY <1>7, <2>1, SendBytes DEF ServerBell
  <2> QED
    BY <1>1, <1>7, <2>2 DEF ServerBell, Environment, NoUpdate, Counters
<1> QED
  BY <1>2, <1>3, <1>4, <1>5, <1>6, <1>7 DEF Server

\* So do the host, which opens and closes the port, and the user.
LEMMA HostIsEnvironment ==
    ASSUME TypeOK, Counters, HostOpen \/ HostClose \/ Press \/ ReleaseButton
    PROVE  Environment /\ Counters'
<1>1. control \in 0..3 /\ pins \in SUBSET Keys /\ rx \in Seq(Byte) /\ toServer \in Seq(Messages)
  BY DEF TypeOK
<1> USE DEF clientKept
<1>2. CASE HostOpen
  <2>1. rx' \in Seq(Byte)
    BY <1>1, <1>2, ServerBytes, ConcatProperties DEF HostOpen
  <2>2. toServer' \in Seq(Messages)
    BY <1>1, <1>2 DEF HostOpen
  <2> QED
    BY <1>1, <1>2, <2>1, <2>2 DEF HostOpen, Environment, Counters
<1>3. CASE HostClose
  <2>1. rx' \in Seq(Byte)
    <3>1. PICK n \in 0..Len(rx) : rx' = SubSeq(rx, 1, n)
      BY <1>3 DEF HostClose
    <3> QED
      BY <1>1, <3>1
  <2> QED
    BY <1>1, <1>3, <2>1 DEF HostClose, Environment, Counters
<1>4. CASE Press
  <2>1. pins' \in SUBSET Keys
    BY <1>1, <1>4, UserAssumption DEF Press
  <2>2. presses' \in Nat
    BY <1>4 DEF Press, Counters
  <2> QED
    BY <1>1, <1>4, <2>1, <2>2 DEF Press, Environment, Counters
<1>5. CASE ReleaseButton
  <2>1. pins' \in SUBSET Keys
    BY <1>1, <1>5 DEF ReleaseButton
  <2> QED
    BY <1>1, <1>5, <2>1 DEF ReleaseButton, Environment, Counters, srvVars
<1> QED
  BY <1>2, <1>3, <1>4, <1>5

\* Every step of the system is a step of the client or of its environment.
LEMMA SystemStep ==
    ASSUME TypeOK, Counters, [SystemNext]_allVars
    PROVE  [MainLoop \/ Environment]_vars /\ TypeOK' /\ Counters'
<1>1. [MainLoop \/ Environment]_vars /\ Counters'
  <2>1. CASE Client
    BY <2>1 DEF Client, srvVars, Counters
  <2>2. CASE Server \/ ServerBell
    BY <2>2, ServerIsEnvironment
  <2>3. CASE HostOpen \/ HostClose \/ Press \/ ReleaseButton
    BY <2>3, HostIsEnvironment
  <2>4. CASE UNCHANGED allVars
    BY <2>4 DEF allVars, srvVars, Counters
  <2> QED
    BY <2>1, <2>2, <2>3, <2>4 DEF SystemNext
<1> QED
  BY <1>1, StepType

\* The types of the client and the counters hold throughout.
LEMMA SystemTypes == SystemSpec => [](TypeOK /\ Counters)
<1>1. SystemInit => TypeOK /\ Counters
  BY InitType DEF SystemInit, Counters
<1>2. TypeOK /\ Counters /\ [SystemNext]_allVars => (TypeOK /\ Counters)'
  BY SystemStep
<1> QED
  BY <1>1, <1>2, PTL DEF SystemSpec

\* The client connected to a server is the client against any environment:
\* what is proved of the one holds of the other (VncClient's Spec is the
\* abstract specification of the serial port, the server and the buttons).
THEOREM SystemIsClient == SystemSpec => Spec
<1>1. SystemInit => Init
  BY DEF SystemInit
<1>2. TypeOK /\ Counters /\ [SystemNext]_allVars => [MainLoop \/ Environment]_vars
  BY SystemStep
<1> QED
  BY <1>1, <1>2, SystemTypes, PTL DEF SystemSpec, Spec

\* So the parser's types, the order of the answers and the exactness of raw
\* tiles, which hold whatever is read from the port, hold of the system.
COROLLARY ClientInSystem == SystemSpec => [](TypeOK /\ SendOrder /\ RawTileExact)
BY SystemIsClient, TypeCorrect, AnswersInOrder, RawTiles, PTL

-----------------------------------------------------------------------------
(* One key event for each press *)

\* The key events in a queue of messages.
KeysIn(queue) == {i \in DOMAIN queue : queue[i] \in KeyEvents}

\* There are finitely many of them.
LEMMA KeysFinite ==
    ASSUME NEW queue \in Seq(Messages)
    PROVE  IsFiniteSet(KeysIn(queue)) /\ Cardinality(KeysIn(queue)) \in Nat
<1>1. DOMAIN queue = 1..Len(queue) /\ Len(queue) \in Nat
  BY LenProperties
<1>2. IsFiniteSet(1..Len(queue))
  BY <1>1, FS_Interval
<1>3. KeysIn(queue) \in SUBSET (1..Len(queue))
  BY <1>1 DEF KeysIn
<1> QED
  BY <1>2, <1>3, FS_Subset, FS_CardinalityType

\* A message that is written is counted if it is a key event.
LEMMA KeysAppend ==
    ASSUME NEW queue \in Seq(Messages), NEW m \in Messages
    PROVE  Cardinality(KeysIn(Append(queue, m)))
             = Cardinality(KeysIn(queue)) + (IF m \in KeyEvents THEN 1 ELSE 0)
<1> DEFINE n == Len(queue)
           longer == Append(queue, m)
<1>1. /\ DOMAIN queue = 1..n /\ n \in Nat
      /\ DOMAIN longer = 1..(n + 1) /\ longer[n + 1] = m
      /\ \A i \in 1..n : longer[i] = queue[i]
  BY LenProperties, AppendProperties
<1>2. IsFiniteSet(KeysIn(queue)) /\ Cardinality(KeysIn(queue)) \in Nat
  BY KeysFinite
<1> HIDE DEF longer, n
<1>3. n + 1 \notin KeysIn(queue)
  BY <1>1 DEF KeysIn
<1>4. CASE m \in KeyEvents
  <2>1. KeysIn(longer) = KeysIn(queue) \union {n + 1}
    BY <1>1, <1>4 DEF KeysIn
  <2> QED
    BY <1>2, <1>3, <1>4, <2>1, FS_AddElement DEF longer
<1>5. CASE m \notin KeyEvents
  <2>1. KeysIn(longer) = KeysIn(queue)
    BY <1>1, <1>5 DEF KeysIn
  <2> QED
    BY <1>2, <1>5, <2>1 DEF longer
<1> QED
  BY <1>4, <1>5

\* A message that is read was counted if it is a key event.
LEMMA KeysTail ==
    ASSUME NEW queue \in Seq(Messages), queue # <<>>
    PROVE  Cardinality(KeysIn(Tail(queue))) + (IF Head(queue) \in KeyEvents THEN 1 ELSE 0)
             = Cardinality(KeysIn(queue))
<1> DEFINE n == Len(queue)
           rest == Tail(queue)
           others == KeysIn(queue) \ {1}
           shift == [i \in KeysIn(rest) |-> i + 1]
<1>1. /\ DOMAIN queue = 1..n /\ n \in Nat /\ n >= 1
      /\ DOMAIN rest = 1..(n - 1) /\ Head(queue) = queue[1]
      /\ \A i \in 1..(n - 1) : rest[i] = queue[i + 1]
      /\ rest \in Seq(Messages)
  BY LenProperties, HeadTailProperties, EmptySeq
<1>2. IsFiniteSet(KeysIn(queue)) /\ Cardinality(KeysIn(queue)) \in Nat
  BY KeysFinite
<1>3. IsFiniteSet(KeysIn(rest)) /\ Cardinality(KeysIn(rest)) \in Nat
  BY <1>1, KeysFinite
<1> HIDE DEF n, rest
<1>4. /\ KeysIn(rest) = {i \in 1..(n - 1) : queue[i + 1] \in KeyEvents}
      /\ others = {i \in 2..n : queue[i] \in KeyEvents}
  BY <1>1 DEF KeysIn
<1>5. shift \in [KeysIn(rest) -> others]
  BY <1>1, <1>4
<1>6. \A i, j \in KeysIn(rest) : shift[i] = shift[j] => i = j
  BY <1>1, <1>4
<1>7. \A j \in others : \E i \in KeysIn(rest) : shift[i] = j
  <2> SUFFICES ASSUME NEW j \in others
               PROVE  j - 1 \in KeysIn(rest) /\ shift[j - 1] = j
    OBVIOUS
  <2> QED
    BY <1>1, <1>4
<1>8. ExistsBijection(KeysIn(rest), others)
  <2> HIDE DEF shift, others
  <2> QED
    BY <1>5, <1>6, <1>7, Fun_IsBij, Fun_ExistsBij
<1>9. Cardinality(others) = Cardinality(KeysIn(rest))
  BY <1>3, <1>8, FS_Bijection
<1>10. Cardinality(others)
         = IF 1 \in KeysIn(queue) THEN Cardinality(KeysIn(queue)) - 1
                                  ELSE Cardinality(KeysIn(queue))
  BY <1>2, FS_RemoveElement
<1>11. 1 \in KeysIn(queue) <=> Head(queue) \in KeyEvents
  BY <1>1 DEF KeysIn
<1> QED
  BY <1>2, <1>3, <1>9, <1>10, <1>11 DEF rest

\* The key events, by name.
LEMMA KeyNames ==
    /\ KeyEvents = {"r", "a", "b"} /\ KeyEvents \subseteq Messages
    /\ \A k \in Keys : KeyOf[k] \in KeyEvents
BY DEF KeyEvents, KeyOf, Keys, Messages, MessageSize

\* The presses that are still on their way to the server: in the queue, in
\* keypress, and at the pins.
KeysQueued(queue) == Cardinality(KeysIn(queue))
KeyWaiting(key) == IF key = "none" THEN 0 ELSE 1
KeyUnseen(held, seen) == IF held # {} /\ ~seen THEN 1 ELSE 0

\* Each of them, and each key event the server has read, is a press of its own.
PressesCounted ==
    KeysQueued(toServer) + keysSeen + KeyWaiting(keypress) + KeyUnseen(pins, oneshot) <= presses

\* Whatever becomes of a message that is written, at most that message is
\* added to the queue.
LEMMA KeysSent ==
    ASSUME TypeOK, NEW m \in Messages, VncServerSendResponse(m)
    PROVE  /\ KeysQueued(toServer) \in Nat /\ KeysQueued(toServer') \in Nat
           /\ KeysQueued(toServer') <= KeysQueued(toServer) + (IF m \in KeyEvents THEN 1 ELSE 0)
<1> DEFINE cut == [i \in 1..Room |-> "byte"]
<1>1. /\ toServer \in Seq(Messages) /\ cut \in Seq(Messages)
      /\ \A i \in DOMAIN cut : cut[i] \notin KeyEvents
  BY KeyNames, CutType DEF TypeOK
<1>2. Cardinality(KeysIn(toServer)) \in Nat
  BY <1>1, KeysFinite
<1>3. CASE toServer' = Append(toServer, m)
  BY <1>1, <1>2, <1>3, KeysAppend DEF KeysQueued
<1>4. CASE toServer' = toServer \o cut
  <2> HIDE DEF cut
  <2> DEFINE longer == toServer \o cut
  <2>1. /\ DOMAIN toServer = 1..Len(toServer) /\ DOMAIN cut = 1..Len(cut)
        /\ Len(toServer) \in Nat /\ Len(cut) \in Nat
    BY <1>1, LenProperties
  <2>2. /\ longer \in Seq(Messages) /\ Len(longer) = Len(toServer) + Len(cut)
        /\ \A k \in 1 .. Len(toServer) + Len(cut) :
             longer[k] = IF k <= Len(toServer) THEN toServer[k] ELSE cut[k - Len(toServer)]
    BY <1>1, ConcatProperties
  <2> HIDE DEF longer
  <2>3. DOMAIN longer = 1 .. Len(toServer) + Len(cut)
    BY <2>2, LenProperties
  <2>4. \A k \in DOMAIN longer : IF k \in DOMAIN toServer THEN longer[k] = toServer[k]
                                                          ELSE longer[k] \notin KeyEvents
    <3> SUFFICES ASSUME NEW k \in DOMAIN longer
                 PROVE  IF k \in DOMAIN toServer THEN longer[k] = toServer[k]
                                                 ELSE longer[k] \notin KeyEvents
      OBVIOUS
    <3>1. CASE k <= Len(toServer)
      BY <2>1, <2>2, <2>3, <3>1
    <3>2. CASE ~(k <= Len(toServer))
      <4>1. k \notin DOMAIN toServer /\ k - Len(toServer) \in DOMAIN cut
        BY <2>1, <2>3, <3>2
      <4>2. longer[k] = cut[k - Len(toServer)]
        BY <2>2, <2>3, <3>2
      <4> QED
        BY <1>1, <4>1, <4>2
    <3> QED
      BY <3>1, <3>2
  <2>5. DOMAIN toServer \subseteq DOMAIN longer
    BY <2>1, <2>3
  <2>6. KeysIn(longer) = KeysIn(toServer)
    BY <2>4, <2>5 DEF KeysIn
  <2> QED
    BY <1>2, <1>4, <2>6 DEF KeysQueued, longer
<1> QED
  BY <1>3, <1>4 DEF VncServerSendResponse

\* The client passes presses on and makes none.
LEMMA ClientCounts ==
    ASSUME TypeOK, Counters, PressesCounted, Client
    PROVE  PressesCounted'
<1>1. MainLoop /\ UNCHANGED <<presses, keysSeen>>
  BY DEF Client, srvVars
<1>2. KeysQueued(toServer) \in Nat /\ keysSeen \in Nat /\ presses \in Nat
  BY KeysFinite DEF TypeOK, Counters, KeysQueued
<1>3. CASE VncServerGetData \/ Vnc_StateMachine \/ NothingToSend
  <2>1. UNCHANGED <<toServer, pins, keypress, oneshot>>
    BY <1>3 DEF VncServerGetData, GetControlSame, GetControlChanged, LatchControl,
       GetDataDisconnected, GetDataConnected, ReadBytes, Vnc_StateMachine, NothingToSend,
       envVars, keyVars
  <2> QED
    BY <1>1, <2>1 DEF PressesCounted, KeysQueued, KeyWaiting, KeyUnseen
<1>4. CASE Buttons_Handler
  <2>1. UNCHANGED <<toServer, pins>>
    BY <1>4 DEF Buttons_Handler, envVars
  <2>2. CASE pins # {} /\ oneshot
    BY <1>1, <1>4, <2>1, <2>2 DEF Buttons_Handler, keyVars, PressesCounted, KeysQueued,
       KeyWaiting, KeyUnseen
  <2>3. CASE pins # {} /\ ~oneshot
    <3>1. KeyUnseen(pins, oneshot) = 1 /\ KeyUnseen(pins', oneshot') = 0
      BY <1>4, <2>1, <2>3 DEF Buttons_Handler, KeyUnseen
    <3>2. /\ KeysQueued(toServer') = KeysQueued(toServer)
          /\ KeyWaiting(keypress) \in {0, 1} /\ KeyWaiting(keypress') \in {0, 1}
      BY <2>1 DEF KeysQueued, KeyWaiting
    <3> QED
      BY <1>1, <1>2, <3>1, <3>2 DEF PressesCounted
  <2>4. CASE pins = {}
    <3>1. KeyUnseen(pins, oneshot) = 0 /\ KeyUnseen(pins', oneshot') = 0
      BY <2>1, <2>4 DEF KeyUnseen
    <3>2. KeysQueued(toServer') = KeysQueued(toServer) /\ keypress' = keypress
      BY <1>4, <2>1, <2>4 DEF KeysQueued, Buttons_Handler
    <3> QED
      BY <1>1, <3>1, <3>2 DEF PressesCounted, KeyWaiting
  <2> QED
    BY <2>2, <2>3, <2>4
<1>5. CASE SendVersion \/ SendAuthWord \/ SendClientInit \/ SendPixelFormat \/ SendEncodings
           \/ SendFullRefresh
  <2>1. /\ \E m \in {"version", "authWord", "clientInit", "pixelFormat", "encodings",
                     "fullRefresh"} : VncServerSendResponse(m)
        /\ UNCHANGED <<pins, keypress, oneshot>>
    BY <1>5 DEF SendVersion, SendAuthWord, SendClientInit, SendPixelFormat, SendEncodings,
       SendFullRefresh, Respond, keyVars
  <2>2. PICK m \in Messages \ KeyEvents : VncServerSendResponse(m)
    BY <2>1, KeyNames DEF Messages, MessageSize
  <2>3. KeysQueued(toServer') \in Nat /\ KeysQueued(toServer') <= KeysQueued(toServer)
    BY <1>2, <2>2, KeysSent
  <2>4. /\ KeyWaiting(keypress) \in {0, 1} /\ KeyUnseen(pins, oneshot) \in {0, 1}
        /\ KeyWaiting(keypress') = KeyWaiting(keypress)
        /\ KeyUnseen(pins', oneshot') = KeyUnseen(pins, oneshot)
    BY <2>1 DEF KeyWaiting, KeyUnseen
  <2> QED
    BY <1>1, <1>2, <2>3, <2>4 DEF PressesCounted
<1>6. CASE SendRequest
  <2> DEFINE m == IF keypress # "none" THEN KeyOf[keypress] ELSE "refresh"
  <2>1. /\ VncServerSendResponse(m)
        /\ keypress' = "none" /\ UNCHANGED <<pins, oneshot>>
    BY <1>6 DEF SendRequest
  <2>2. m \in Messages /\ (m \in KeyEvents => keypress # "none")
    BY KeyNames DEF TypeOK, Messages, MessageSize
  <2> HIDE DEF m
  <2>3. /\ KeysQueued(toServer') \in Nat
        /\ KeysQueued(toServer') <= KeysQueued(toServer) + KeyWaiting(keypress)
    BY <1>2, <2>1, <2>2, KeysSent DEF KeyWaiting
  <2>4. /\ KeyWaiting(keypress) \in {0, 1} /\ KeyUnseen(pins, oneshot) \in {0, 1}
        /\ KeyWaiting(keypress') = 0
        /\ KeyUnseen(pins', oneshot') = KeyUnseen(pins, oneshot)
    BY <2>1 DEF KeyWaiting, KeyUnseen
  <2> QED
    BY <1>1, <1>2, <2>3, <2>4 DEF PressesCounted
<1> QED
  BY <1>1, <1>3, <1>4, <1>5, <1>6 DEF MainLoop, SendResponse

\* A message that the server reads moves from the queue to keysSeen if it is a
\* key event.
LEMMA ServerCounts ==
    ASSUME TypeOK, Counters, PressesCounted, Server \/ ServerBell
    PROVE  PressesCounted'
<1>1. KeysQueued(toServer) \in Nat /\ keysSeen \in Nat /\ presses \in Nat
  BY KeysFinite DEF TypeOK, Counters, KeysQueued
<1>2. UNCHANGED <<pins, presses, keypress, oneshot>>
  BY DEF Server, ServerVersion, ServerAuthWord, ServerClientInit, ServerSetup,
     ServerRequest, ServerKey, ServerUpdate, ServerBell, Quiet, clientKept, keyVars
<1>3. /\ KeyWaiting(keypress) \in {0, 1} /\ KeyUnseen(pins, oneshot) \in {0, 1}
      /\ KeyWaiting(keypress') = KeyWaiting(keypress)
      /\ KeyUnseen(pins', oneshot') = KeyUnseen(pins, oneshot)
  BY <1>2 DEF KeyWaiting, KeyUnseen
<1>4. ASSUME toServer # <<>>, toServer' = Tail(toServer)
      PROVE  /\ KeysQueued(toServer') \in Nat /\ KeysQueued(toServer') <= KeysQueued(toServer)
             /\ Head(toServer) \in KeyEvents => KeysQueued(toServer') + 1 = KeysQueued(toServer)
  <2>1. toServer \in Seq(Messages) /\ Tail(toServer) \in Seq(Messages)
    BY <1>4, HeadTailProperties DEF TypeOK
  <2>2. Cardinality(KeysIn(Tail(toServer))) \in Nat
    BY <2>1, KeysFinite
  <2>3. Cardinality(KeysIn(Tail(toServer))) + (IF Head(toServer) \in KeyEvents THEN 1 ELSE 0)
          = Cardinality(KeysIn(toServer))
    BY <1>4, <2>1, KeysTail
  <2> QED
    BY <1>1, <1>4, <2>2, <2>3 DEF KeysQueued
<1>5. CASE ServerKey
  <2>1. /\ toServer # <<>> /\ Head(toServer) \in KeyEvents /\ toServer' = Tail(toServer)
        /\ keysSeen' \in {keysSeen, keysSeen + 1}
    BY <1>5 DEF ServerKey, Receive
  <2>2. KeysQueued(toServer') \in Nat /\ KeysQueued(toServer') + 1 = KeysQueued(toServer)
    BY <1>4, <2>1
  <2> QED
    BY <1>1, <1>2, <1>3, <2>1, <2>2 DEF PressesCounted
<1>6. CASE ServerVersion \/ ServerAuthWord \/ ServerClientInit \/ ServerSetup \/ ServerRequest
  <2>1. toServer # <<>> /\ toServer' = Tail(toServer) /\ UNCHANGED keysSeen
    BY <1>6 DEF ServerVersion, ServerAuthWord, ServerClientInit, ServerSetup,
       ServerRequest, Receive
  <2>2. KeysQueued(toServer') \in Nat /\ KeysQueued(toServer') <= KeysQueued(toServer)
    BY <1>4, <2>1
  <2> QED
    BY <1>1, <1>2, <1>3, <2>1, <2>2 DEF PressesCounted
<1>7. CASE ServerUpdate \/ ServerBell
  <2>1. UNCHANGED <<toServer, keysSeen>>
    BY <1>7 DEF ServerUpdate, ServerBell
  <2> QED
    BY <1>2, <1>3, <2>1 DEF PressesCounted, KeysQueued
<1> QED
  BY <1>5, <1>6, <1>7 DEF Server

\* The host at most empties the queue; the user's first press of several is
\* counted, a release makes none.
LEMMA HostCounts ==
    ASSUME TypeOK, Counters, PressesCounted, HostOpen \/ HostClose \/ Press \/ ReleaseButton
    PROVE  PressesCounted'
<1>1. KeysQueued(toServer) \in Nat /\ keysSeen \in Nat /\ presses \in Nat
  BY KeysFinite DEF TypeOK, Counters, KeysQueued
<1>2. UNCHANGED <<keypress, oneshot, keysSeen>>
  BY DEF HostOpen, HostClose, Press, ReleaseButton, clientKept, keyVars, srvVars
<1>3. /\ KeyWaiting(keypress) \in {0, 1}
      /\ KeyUnseen(pins, oneshot) \in {0, 1} /\ KeyUnseen(pins', oneshot') \in {0, 1}
      /\ KeyWaiting(keypress') = KeyWaiting(keypress)
  BY <1>2 DEF KeyWaiting, KeyUnseen
<1>4. CASE HostOpen \/ HostClose
  <2>1. toServer' \in {toServer, <<>>} /\ UNCHANGED <<pins, presses>>
    BY <1>4 DEF HostOpen, HostClose
  <2>2. KeyUnseen(pins', oneshot') = KeyUnseen(pins, oneshot)
    BY <1>2, <2>1 DEF KeyUnseen
  <2>3. KeysQueued(toServer') \in Nat /\ KeysQueued(toServer') <= KeysQueued(toServer)
    <3>1. CASE toServer' = toServer
      BY <1>1, <3>1 DEF KeysQueued
    <3>2. CASE toServer' = <<>>
      <4>1. KeysIn(<<>>) = {}
        BY DEF KeysIn
      <4>2. KeysQueued(<<>>) = 0
        BY <4>1, FS_EmptySet DEF KeysQueued
      <4> QED
        BY <1>1, <3>2, <4>2
    <3> QED
      BY <2>1, <3>1, <3>2
  <2> QED
    BY <1>1, <1>2, <1>3, <2>1, <2>2, <2>3 DEF PressesCounted
<1>5. CASE Press
  <2>1. /\ toServer' = toServer /\ pins' # {}
        /\ presses' = presses + (IF pins = {} THEN 1 ELSE 0)
    BY <1>5 DEF Press
  <2>2. KeyUnseen(pins', oneshot') <= KeyUnseen(pins, oneshot) + (IF pins = {} THEN 1 ELSE 0)
    BY <1>2, <2>1 DEF KeyUnseen
  <2>3. KeysQueued(toServer') = KeysQueued(toServer)
    BY <2>1 DEF KeysQueued
  <2> QED
    BY <1>1, <1>2, <1>3, <2>1, <2>2, <2>3 DEF PressesCounted
<1>6. CASE ReleaseButton
  <2>1. /\ UNCHANGED <<toServer, presses>> /\ pins # {}
    BY <1>6 DEF ReleaseButton, srvVars
  <2>2. KeyUnseen(pins', oneshot') <= KeyUnseen(pins, oneshot)
    BY <1>2, <2>1 DEF KeyUnseen
  <2>3. KeysQueued(toServer') = KeysQueued(toServer)
    BY <2>1 DEF KeysQueued
  <2> QED
    BY <1>1, <1>2, <1>3, <2>1, <2>2, <2>3 DEF PressesCounted
<1> QED
  BY <1>4, <1>5, <1>6

\* A button that is pressed, held and released in whatever relation to the
\* passes of the main loop, to a queue that is full and to the host closing
\* the port is at most one key event (Buttons_Handler's one-shot, keypress
\* cleared by Vnc_LoadResponseBuffer when it takes it).
THEOREM OneKeyPerPress == SystemSpec => []KeyPerPress
<1>1. SystemInit => PressesCounted
  <2> SUFFICES ASSUME SystemInit PROVE PressesCounted
    OBVIOUS
  <2>1. toServer = <<>> /\ pins = {} /\ keypress = "none" /\ presses = 0 /\ keysSeen = 0
    BY DEF SystemInit, Init, ClientInit, EnvironmentInit
  <2>2. KeysIn(toServer) = {}
    BY <2>1 DEF KeysIn
  <2>3. KeysQueued(toServer) = 0 /\ KeyWaiting(keypress) = 0 /\ KeyUnseen(pins, oneshot) = 0
    BY <2>1, <2>2, FS_EmptySet DEF KeysQueued, KeyWaiting, KeyUnseen
  <2> QED
    BY <2>1, <2>3 DEF PressesCounted
<1>2. TypeOK /\ Counters /\ PressesCounted /\ [SystemNext]_allVars => PressesCounted'
  <2> SUFFICES ASSUME TypeOK, Counters, PressesCounted, [SystemNext]_allVars
               PROVE  PressesCounted'
    OBVIOUS
  <2>1. CASE UNCHANGED allVars
    BY <2>1 DEF allVars, srvVars, vars, envVars, keyVars, PressesCounted, KeysQueued,
       KeyWaiting, KeyUnseen
  <2> QED
    BY <2>1, ClientCounts, ServerCounts, HostCounts DEF SystemNext
<1>3. TypeOK /\ Counters /\ PressesCounted => KeyPerPress
  <2> SUFFICES ASSUME TypeOK, Counters, PressesCounted PROVE KeyPerPress
    OBVIOUS
  <2>1. KeysQueued(toServer) \in Nat /\ keysSeen \in Nat /\ presses \in Nat
    BY KeysFinite DEF TypeOK, Counters, KeysQueued
  <2>2. KeyWaiting(keypress) \in {0, 1} /\ KeyUnseen(pins, oneshot) \in {0, 1}
    BY DEF KeyWaiting, KeyUnseen
  <2>3. KeysQueued(toServer) + keysSeen + KeyWaiting(keypress) <= presses
    BY <2>1, <2>2 DEF PressesCounted
  <2> QED
    BY <2>3 DEF KeyPerPress, KeysQueued, KeysIn, KeyWaiting
<1> QED
  BY <1>1, <1>2, <1>3, SystemTypes, PTL DEF SystemSpec

-----------------------------------------------------------------------------
(* The session: how far the client and the server can be apart *)

\* The bytes the client has not parsed are those of vncBuffer and those the
\* program has not read; the fourth of them.
Unread(b, r) == Len(b) + Len(r)
Fourth(b, r) == IF Len(b) >= 4 THEN b[4] ELSE r[4 - Len(b)]

\* The client in a state with n bytes to parse, and after having sent the
\* messages up to a send state, those of queue unread by the server.
Holding(state, n) == VNCstate = state /\ Unread(buf, rx) = n
Said(sendState, queue) == VNCsendState = sendState /\ toServer = queue

\* The control lines.  A host that waits until its change was seen finds the
\* client reset and its buffer empty whenever it opens the port, and no reset
\* comes afterwards.
Lines ==
    /\ lastControlState \in {0, 3}
    /\ pc = "latch" => lastControlState # control
    /\ srv # "closed" => control = 3 /\ (pc = "answer" => lastControlState = 3)
    /\ srv = "closed" =>
         /\ control = 0 /\ rx = <<>>
         /\ lastControlState = 0 /\ pc # "answer" =>
              VNCstate = "NOTCONNECTED" /\ VNCsendState = "INIT" /\ buf = <<>>

\* What the client has parsed and sent while the server waits for each of the
\* messages of the handshake, and after it has refused the client.
VersionStage ==
    \/ Holding("NOTCONNECTED", 12) /\ Said("INIT", <<>>)
    \/ /\ Holding("WAITFORAUTHTYPE", 0)
       /\ Said("INIT", <<>>) \/ Said("VERSIONSENT", <<"version">>)

AuthWordStage ==
    \/ Holding("WAITFORAUTHTYPE", 20) /\ Fourth(buf, rx) = 2 /\ Said("VERSIONSENT", <<>>)
    \/ Holding("WAITFORVNCAUTHWORD", 16) /\ Said("VERSIONSENT", <<>>)
    \/ /\ Holding("WAITFORVNCAUTHRESPONSE", 0)
       /\ Said("VERSIONSENT", <<>>) \/ Said("AUTHWORDSENT", <<"authWord">>)

ClientInitStage ==
    \/ Holding("WAITFORAUTHTYPE", 4) /\ Fourth(buf, rx) = 1 /\ Said("VERSIONSENT", <<>>)
    \/ Holding("WAITFORVNCAUTHRESPONSE", 4) /\ Fourth(buf, rx) = 0 /\ Said("AUTHWORDSENT", <<>>)
    \/ /\ Holding("SENTCLIENTINITMESSAGE", 0)
       /\ Said("AUTHWORDSENT", <<>>) \/ Said("CLIENTINITMESSAGESENT", <<"clientInit">>)

RefusedStage ==
    \/ Holding("WAITFORAUTHTYPE", 4) /\ Fourth(buf, rx) \notin {1, 2} /\ Said("VERSIONSENT", <<>>)
    \/ Holding("WAITFORVNCAUTHRESPONSE", 4) /\ Fourth(buf, rx) # 0 /\ Said("AUTHWORDSENT", <<>>)
    \/ /\ VNCstate = "AUTHFAILED"
       /\ Said("VERSIONSENT", <<>>) \/ Said("AUTHWORDSENT", <<>>)

\* Of the three messages that follow, how many the server has read and how
\* many the client has sent.
Setup == <<"pixelFormat", "encodings", "fullRefresh">>
SetupRead == [pixelFormat |-> 0, encodings |-> 1, fullRefresh |-> 2, running |-> 3]
SetupSent == [CLIENTINITMESSAGESENT |-> 0, PIXELFORMATSENT |-> 1,
              ENCODINGTYPESENT |-> 2, PARTIALREFRESHSENT |-> 3]

\* The messages of a client that is connected.
Asking == {"refresh"} \union KeyEvents

\* The states of a client that has answered the server's verdict.
Settled == PastResponse \union {"DEAD"}

\* The queue of a server that has read the first r of them and a client that
\* has sent the first s.
Queued(queue, r, s) ==
    /\ r <= s /\ s - r <= Len(queue)
    /\ s < 3 => Len(queue) = s - r
    /\ \A i \in 1..Len(queue) :
         IF i <= s - r THEN queue[i] = Setup[r + i] ELSE queue[i] \in Asking

SetupStage ==
    /\ VNCstate \in Settled /\ VNCsendState \in DOMAIN SetupSent
    /\ Queued(toServer, SetupRead[srv], SetupSent[VNCsendState])

Session ==
    \/ srv = "closed"
    \/ srv = "version" /\ VersionStage
    \/ srv = "authWord" /\ AuthWordStage
    \/ srv = "clientInit" /\ ClientInitStage
    \/ srv = "refused" /\ RefusedStage
    \/ srv \in DOMAIN SetupRead /\ SetupStage

\* Reading moves bytes to the buffer in order.
LEMMA ReadKeeps ==
    ASSUME TypeOK, ReadBytes
    PROVE  /\ Unread(buf', rx') = Unread(buf, rx)
           /\ Unread(buf, rx) >= 4 => Fourth(buf', rx') = Fourth(buf, rx)
<1>1. buf \in Seq(Byte) /\ rx \in Seq(Byte) /\ Len(buf) \in Nat /\ Len(rx) \in Nat
  BY LenProperties DEF TypeOK
<1>2. PICK n \in 0..Len(rx) :
        buf' = buf \o SubSeq(rx, 1, n) /\ rx' = SubSeq(rx, n + 1, Len(rx))
  BY DEF ReadBytes
<1> DEFINE front == SubSeq(rx, 1, n)
<1>3. front \in Seq(Byte) /\ Len(front) = n /\ \A i \in 1..n : front[i] = rx[i]
  BY <1>1
<1>4. /\ rx' \in Seq(Byte) /\ Len(rx') = Len(rx) - n
      /\ \A i \in 1..(Len(rx) - n) : rx'[i] = rx[n + i]
  BY <1>1, <1>2
<1> HIDE DEF front
<1>5. /\ Len(buf') = Len(buf) + n
      /\ \A i \in 1..(Len(buf) + n) :
           buf'[i] = IF i <= Len(buf) THEN buf[i] ELSE front[i - Len(buf)]
  BY <1>1, <1>2, <1>3, ConcatProperties DEF front
<1>6. Unread(buf', rx') = Unread(buf, rx)
  BY <1>1, <1>4, <1>5 DEF Unread
<1>7. ASSUME Unread(buf, rx) >= 4
      PROVE  Fourth(buf', rx') = Fourth(buf, rx)
  <2>1. CASE Len(buf) >= 4
    BY <1>1, <1>5, <2>1 DEF Fourth
  <2>2. CASE Len(buf) < 4 /\ Len(buf) + n >= 4
    <3>1. 4 - Len(buf) \in 1..n /\ 4 \in 1..(Len(buf) + n)
      BY <1>1, <2>2
    <3>2. buf'[4] = front[4 - Len(buf)] /\ front[4 - Len(buf)] = rx[4 - Len(buf)]
      BY <1>1, <1>3, <1>5, <2>2, <3>1
    <3> QED
      BY <1>1, <1>5, <2>2, <3>2 DEF Fourth
  <2>3. CASE Len(buf) + n < 4
    <3>1. 4 - Len(buf) - n \in 1..(Len(rx) - n) /\ Len(buf) < 4
      BY <1>1, <1>7, <2>3 DEF Unread
    <3>2. rx'[4 - Len(buf) - n] = rx[n + (4 - Len(buf) - n)]
      BY <1>4, <3>1
    <3>3. n + (4 - Len(buf) - n) = 4 - Len(buf) /\ 4 - (Len(buf) + n) = 4 - Len(buf) - n
      BY <1>1
    <3> QED
      BY <1>1, <1>5, <2>3, <3>1, <3>2, <3>3 DEF Fourth
  <2> QED
    BY <1>1, <2>1, <2>2, <2>3
<1> QED
  BY <1>6, <1>7

\* Parsing takes bytes off the front.
LEMMA ConsumeTakes ==
    ASSUME TypeOK, NEW n \in Nat, n <= Len(buf), Consume(n), rx' = rx
    PROVE  Unread(buf', rx') = Unread(buf, rx) - n
<1>1. buf \in Seq(Byte) /\ Len(buf) \in Nat /\ Len(rx) \in Nat
  BY LenProperties DEF TypeOK
<1>2. Len(buf') = Len(buf) - n
  BY <1>1, ConsumeRest DEF Consume
<1> QED
  BY <1>1, <1>2 DEF Unread

\* The server's bytes are what an idle client has to parse next.
LEMMA SendAdds ==
    ASSUME TypeOK, NEW bytes \in Seq(Byte), rx' = rx \o bytes, buf' = buf,
           Unread(buf, rx) = 0
    PROVE  /\ Unread(buf', rx') = Len(bytes)
           /\ Len(bytes) >= 4 => Fourth(buf', rx') = bytes[4]
<1>1. buf \in Seq(Byte) /\ rx \in Seq(Byte) /\ Len(buf) \in Nat /\ Len(rx) \in Nat
  BY LenProperties DEF TypeOK
<1>2. Len(buf) = 0 /\ Len(rx) = 0
  BY <1>1 DEF Unread
<1>3. rx = <<>>
  BY <1>1, <1>2, EmptySeq
<1>4. rx' = bytes
  BY <1>3, ConcatEmptySeq
<1>5. Len(bytes) \in Nat
  BY LenProperties
<1> QED
  BY <1>2, <1>4, <1>5 DEF Unread, Fourth

\* What a call of Vnc_StateMachine does to the connection: nothing, one step
\* of the handshake, or a step of a client that has been admitted.
Took(n) == Len(buf) >= n /\ Unread(buf', rx') = Unread(buf, rx) - n

Advance(from, n, to) == VNCstate = from /\ Took(n) /\ VNCstate' = to

ParsedVersion == Advance("NOTCONNECTED", 12, "WAITFORAUTHTYPE") /\ UNCHANGED VNCsendState

ParsedAuthType ==
    \/ /\ Advance("WAITFORAUTHTYPE", 4, "WAITFORVNCAUTHWORD")
       /\ Fourth(buf, rx) = 2 /\ UNCHANGED VNCsendState
    \/ /\ Advance("WAITFORAUTHTYPE", 4, "SENTCLIENTINITMESSAGE")
       /\ Fourth(buf, rx) = 1 /\ VNCsendState' = "AUTHWORDSENT"
    \/ /\ Advance("WAITFORAUTHTYPE", 4, "AUTHFAILED")
       /\ Fourth(buf, rx) \notin {1, 2} /\ UNCHANGED VNCsendState

ParsedAuthWord ==
    Advance("WAITFORVNCAUTHWORD", 16, "WAITFORVNCAUTHRESPONSE") /\ UNCHANGED VNCsendState

ParsedVerdict ==
    /\ \/ /\ Advance("WAITFORVNCAUTHRESPONSE", 4, "SENTCLIENTINITMESSAGE")
          /\ Fourth(buf, rx) = 0
       \/ /\ Advance("WAITFORVNCAUTHRESPONSE", 4, "AUTHFAILED")
          /\ Fourth(buf, rx) # 0
    /\ UNCHANGED VNCsendState

ParsedLater ==
    /\ VNCstate \in PastResponse /\ VNCstate' \in Settled /\ UNCHANGED VNCsendState
    /\ VNCstate = "SENTCLIENTINITMESSAGE" => Len(buf) >= 24

\* Every call does one of these.
LEMMA ParseStep ==
    ASSUME TypeOK, Vnc_StateMachine
    PROVE  /\ UNCHANGED <<rx, toServer, control, lastControlState>>
           /\ pc' \in {"process", "buttons", "wild"} /\ pc = "process"
           /\ \/ UNCHANGED <<buf, connVars>>
              \/ ParsedVersion \/ ParsedAuthType \/ ParsedAuthWord \/ ParsedVerdict
              \/ ParsedLater
<1>1. UNCHANGED <<rx, toServer, control, lastControlState>>
  BY DEF Vnc_StateMachine, envVars
<1>2. ASSUME NEW n \in {4, 12, 16}, Len(buf) >= n, Consume(n)
      PROVE  Took(n)
  BY <1>1, <1>2, ConsumeTakes DEF Took
<1>3. Len(buf) >= 4 => Fourth(buf, rx) = buf[4]
  BY DEF Fourth
<1>4. CASE NotConnected
  <2>1. CASE WaitForBytes(12)
    BY <1>1, <1>4, <2>1 DEF NotConnected, Processing, WaitForBytes, Return0
  <2>2. CASE ~WaitForBytes(12)
    BY <1>1, <1>2, <1>4, <2>2 DEF NotConnected, Processing, Handshake, Again,
       ParsedVersion, Advance
  <2> QED
    BY <2>1, <2>2
<1>5. CASE WaitForAuthType
  <2>1. CASE WaitForBytes(4)
    BY <1>1, <1>5, <2>1 DEF WaitForAuthType, Processing, WaitForBytes, Return0
  <2>2. CASE ~WaitForBytes(4)
    BY <1>1, <1>2, <1>3, <1>5, <2>2 DEF WaitForAuthType, Processing, Again,
       ParsedAuthType, Advance
  <2> QED
    BY <2>1, <2>2
<1>6. CASE WaitForVncAuthWord
  <2>1. CASE WaitForBytes(16)
    BY <1>1, <1>6, <2>1 DEF WaitForVncAuthWord, Processing, WaitForBytes, Return0
  <2>2. CASE ~WaitForBytes(16)
    BY <1>1, <1>2, <1>6, <2>2 DEF WaitForVncAuthWord, Processing, Handshake, Again,
       ParsedAuthWord, Advance
  <2> QED
    BY <2>1, <2>2
<1>7. CASE WaitForVncAuthResponse
  <2>1. CASE WaitForBytes(4)
    BY <1>1, <1>7, <2>1 DEF WaitForVncAuthResponse, Processing, WaitForBytes, Return0
  <2>2. CASE ~WaitForBytes(4)
    BY <1>1, <1>2, <1>3, <1>7, <2>2 DEF WaitForVncAuthResponse, Processing, Handshake,
       Again, ParsedVerdict, Advance
  <2> QED
    BY <2>1, <2>2
<1> USE DEF Settled, PastResponse, PastName
<1>8. CASE SentClientInitMessage
  <2>1. CASE WaitForBytes(24)
    BY <1>1, <1>8, <2>1 DEF SentClientInitMessage, Processing, WaitForBytes, Return0
  <2>2. CASE ~WaitForBytes(24)
    BY <1>1, <1>8, <2>2 DEF SentClientInitMessage, Processing, Again, ParsedLater
  <2> QED
    BY <2>1, <2>2
<1>9. CASE WaitForServerName \/ Connected
  BY <1>1, <1>9 DEF WaitForServerName, Connected, Processing, Handshake, WaitForBytes,
     Return0, Again, ParsedLater, connVars
<1>10. CASE WaitForUpdate
  BY <1>1, <1>10 DEF WaitForUpdate, WaitForBytes, Return0, Again, ParsedLater, connVars
<1>11. CASE ProcessError
  BY <1>1, <1>11 DEF ProcessError
<1>12. CASE PixelProcessor
  <2>1. VNCstate = "PROCESSINGUPDATE" /\ pc = "process"
    BY <1>12 DEF PixelProcessor, UpdateDone, WaitForRectangle, BadEncoding, RawRectangle,
       CopyRectRectangle, HextileRectangle, RectangleHeader, DropRectangle,
       ProcessCopyRect, ProcessHextile, HextileInit, HextileLastTile, HextileNextTile,
       HextileWaitHeader, HextileRawHeader, HextileHeader, HeaderHere, HextileDropRaw,
       HextileDrawRaw, HextileSubrect, HextileSubrectOverrun, HextileWaitSubrect,
       HextileBufferFilled, HextileDrawTile, HextileSkipTile, HextileProcessing,
       PixelProcessing, Processing
  <2>2. pc' \in {"process", "buttons", "wild"}
    <3>1. CASE ProcessHextile
      BY <3>1 DEF ProcessHextile, HextileInit, HextileLastTile, HextileNextTile,
         HextileWaitHeader, HextileRawHeader, HextileHeader, HeaderHere,
         HextileDropRaw, HextileDrawRaw, DropOutOfViewPixels, TakePixels,
         HextileSubrect, HextileSubrectOverrun, HextileWaitSubrect,
         WaitForBytes, HextileBufferFilled, HextileDrawTile, HextileSkipTile,
         Again, Return0
    <3>2. CASE UpdateDone \/ WaitForRectangle \/ BadEncoding \/ RawRectangle
               \/ CopyRectRectangle \/ HextileRectangle \/ DropRectangle \/ ProcessCopyRect
      BY <3>2 DEF UpdateDone, WaitForRectangle, BadEncoding, RawRectangle,
         CopyRectRectangle, HextileRectangle, DropRectangle, DropOutOfViewPixels,
         TakePixels, ProcessCopyRect, WaitForBytes, Again, Return0
    <3> QED
      BY <1>12, <3>1, <3>2 DEF PixelProcessor
  <2>3. ParsedLater
    <3>1. CASE UpdateDone
      BY <2>1, <3>1 DEF UpdateDone, ParsedLater
    <3>2. CASE ~UpdateDone
      <4>1. UNCHANGED connVars
        BY <1>12, <3>2, UpdateKeepsState
      <4> QED
        BY <2>1, <4>1 DEF connVars, ParsedLater
    <3> QED
      BY <3>1, <3>2
  <2> QED
    BY <1>1, <2>1, <2>2, <2>3
<1> QED
  BY <1>4, <1>5, <1>6, <1>7, <1>8, <1>9, <1>10, <1>11, <1>12 DEF Vnc_StateMachine

\* What Vnc_LoadResponseBuffer and VncServerSendResponse do where the endpoint
\* has room: nothing, or one message goes out and is counted as sent.
Answered(from, message, to) ==
    /\ VNCsendState = from /\ VNCsendState' = to
    /\ toServer' = Append(toServer, message)

\* A call of SendResponse with room in the endpoint is one of these.
LEMMA SendStep ==
    ASSUME TypeOK, SendResponse, Room >= MAXIMUM_VNCMESSAGE_SIZE
    PROVE  /\ UNCHANGED <<rx, control, lastControlState, buf, VNCstate>>
           /\ pc' = "control"
           /\ \/ UNCHANGED <<toServer, VNCsendState>>
              \/ Answered("INIT", "version", "VERSIONSENT") /\ VNCstate \in PastConnect
              \/ Answered("VERSIONSENT", "authWord", "AUTHWORDSENT") /\ VNCstate \in PastAuthWord
              \/ /\ Answered("AUTHWORDSENT", "clientInit", "CLIENTINITMESSAGESENT")
                 /\ VNCstate \in PastResponse
              \/ /\ Answered("CLIENTINITMESSAGESENT", "pixelFormat", "PIXELFORMATSENT")
                 /\ VNCstate \in PastName
              \/ /\ Answered("PIXELFORMATSENT", "encodings", "ENCODINGTYPESENT")
                 /\ VNCstate \in PastName
              \/ /\ Answered("ENCODINGTYPESENT", "fullRefresh", "PARTIALREFRESHSENT")
                 /\ VNCstate \in PastName
              \/ /\ \E m \in Asking : Answered("PARTIALREFRESHSENT", m, "PARTIALREFRESHSENT")
                 /\ VNCstate \in PastName
<1>1. Room \in Int /\ Room >= 20 /\ VNCstate \in VNCSTATE
  BY RoomType DEF TypeOK, MAXIMUM_VNCMESSAGE_SIZE
<1>2. ASSUME NEW m \in Messages, VncServerSendResponse(m)
      PROVE  toServer' = Append(toServer, m)
  <2>1. MessageSize[m] \in 0..20
    BY DEF Messages, MessageSize
  <2>2. MessageSize[m] <= Room
    BY <1>1, <2>1
  <2> QED
    BY <1>2, <2>2 DEF VncServerSendResponse
<1>3. ASSUME NEW from, NEW m \in Messages, NEW to, Respond(from, m, to)
      PROVE  /\ Answered(from, m, to)
             /\ UNCHANGED <<rx, control, lastControlState, buf, VNCstate>> /\ pc' = "control"
             /\ Rank[VNCstate] > Rank[Gate[from]]
  BY <1>2, <1>3 DEF Respond, Answered, Past
<1>4. CASE SendVersion
  BY <1>1, <1>3, <1>4, RankOrder DEF SendVersion, Gate, Messages, MessageSize
<1>5. CASE SendAuthWord
  BY <1>1, <1>3, <1>5, RankOrder DEF SendAuthWord, Gate, Messages, MessageSize
<1>6. CASE SendClientInit
  BY <1>1, <1>3, <1>6, RankOrder DEF SendClientInit, Gate, Messages, MessageSize
<1>7. CASE SendPixelFormat
  BY <1>1, <1>3, <1>7, RankOrder DEF SendPixelFormat, Gate, Messages, MessageSize
<1>8. CASE SendEncodings
  BY <1>1, <1>3, <1>8, RankOrder DEF SendEncodings, Gate, Messages, MessageSize
<1>9. CASE SendFullRefresh
  BY <1>1, <1>3, <1>9, RankOrder DEF SendFullRefresh, Gate, Messages, MessageSize
<1>10. CASE SendRequest
  <2>1. (IF keypress # "none" THEN KeyOf[keypress] ELSE "refresh") \in Asking
    BY KeyNames DEF TypeOK, Asking
  <2>2. \E m \in Asking : Answered("PARTIALREFRESHSENT", m, "PARTIALREFRESHSENT")
    <3>1. Asking \subseteq Messages
      BY KeyNames DEF Asking, Messages, MessageSize
    <3> QED
      BY <1>2, <1>10, <2>1, <3>1 DEF SendRequest, Answered, connVars
  <2> QED
    BY <1>10, <2>2 DEF SendRequest, connVars, PastName
<1>11. CASE NothingToSend
  BY <1>11 DEF NothingToSend, envVars, connVars
<1> QED
  BY <1>4, <1>5, <1>6, <1>7, <1>8, <1>9, <1>10, <1>11 DEF SendResponse

\* What the other parts of the loop do to the connection.
LEMMA GetDataStep ==
    ASSUME VncServerGetData
    PROVE  /\ UNCHANGED <<toServer, control>>
           /\ \/ /\ GetControlSame \/ GetControlChanged \/ LatchControl \/ GetDataConnected
                 /\ UNCHANGED <<rx, buf, connVars>>
              \/ GetDataDisconnected
              \/ ReadBytes /\ UNCHANGED <<connVars, lastControlState>>
BY DEF VncServerGetData, GetControlSame, GetControlChanged, LatchControl,
   GetDataDisconnected, GetDataConnected, ReadBytes, envVars

\* A step of the program keeps the control lines and the reset in step.
LEMMA ClientLines ==
    ASSUME TypeOK, Lines, Client
    PROVE  Lines'
<1>1. MainLoop /\ srv' = srv
  BY DEF Client, srvVars
<1>2. CASE GetControlSame \/ GetControlChanged \/ LatchControl \/ GetDataConnected
  BY <1>1, <1>2 DEF Lines, GetControlSame, GetControlChanged, LatchControl,
     GetDataConnected, envVars, connVars
<1>3. CASE GetDataDisconnected
  BY <1>1, <1>3 DEF Lines, GetDataDisconnected, Vnc_ResetSystem, envVars
<1>4. CASE ReadBytes
  <2>1. /\ UNCHANGED <<control, lastControlState, VNCstate, VNCsendState>>
        /\ pc' = "process" /\ pc = "read"
    BY <1>4 DEF ReadBytes, connVars
  <2>2. rx = <<>> /\ buf = <<>> => rx' = <<>> /\ buf' = <<>>
    <3> SUFFICES ASSUME rx = <<>>, buf = <<>> PROVE rx' = <<>> /\ buf' = <<>>
      OBVIOUS
    <3>1. PICK n \in 0..Len(rx) :
            buf' = buf \o SubSeq(rx, 1, n) /\ rx' = SubSeq(rx, n + 1, Len(rx))
      BY <1>4 DEF ReadBytes
    <3>2. n = 0
      BY <3>1
    <3> QED
      BY <3>1, <3>2
  <2>3. rx = <<>> => rx' = <<>>
    <3> SUFFICES ASSUME rx = <<>> PROVE rx' = <<>>
      OBVIOUS
    <3>1. PICK n \in 0..Len(rx) : rx' = SubSeq(rx, n + 1, Len(rx))
      BY <1>4 DEF ReadBytes
    <3>2. n = 0
      BY <3>1
    <3> QED
      BY <3>1, <3>2
  <2> QED
    BY <1>1, <2>1, <2>2, <2>3 DEF Lines
<1>5. CASE Vnc_StateMachine
  <2>1. /\ UNCHANGED <<rx, control, lastControlState>>
        /\ pc' \in {"process", "buttons", "wild"} /\ pc = "process"
    BY <1>5, ParseStep
  <2>2. VNCstate = "NOTCONNECTED" /\ buf = <<>> => UNCHANGED <<buf, VNCstate, VNCsendState>>
    <3> SUFFICES ASSUME VNCstate = "NOTCONNECTED", buf = <<>>
                 PROVE  UNCHANGED <<buf, connVars>>
      BY DEF connVars
    <3>1. ~ParsedVersion
      BY DEF ParsedVersion, Advance, Took
    <3> QED
      BY <1>5, <3>1, ParseStep DEF ParsedAuthType, ParsedAuthWord, ParsedVerdict,
         ParsedLater, Advance, PastResponse, PastName
  <2> QED
    BY <1>1, <2>1, <2>2 DEF Lines
<1>6. CASE Buttons_Handler
  BY <1>1, <1>6 DEF Lines, Buttons_Handler, envVars, connVars
<1>7. CASE SendResponse
  <2>1. /\ UNCHANGED <<rx, control, lastControlState, buf, VNCstate>>
        /\ pc' = "control" /\ pc = "respond"
    BY <1>7 DEF SendResponse, SendVersion, SendAuthWord, SendClientInit, SendPixelFormat,
       SendEncodings, SendFullRefresh, SendRequest, NothingToSend, Respond, envVars, connVars
  <2>2. VNCstate = "NOTCONNECTED" /\ VNCsendState = "INIT" => UNCHANGED VNCsendState
    <3> SUFFICES ASSUME VNCstate = "NOTCONNECTED", VNCsendState = "INIT", SendVersion
                 PROVE  FALSE
      BY <1>7 DEF SendResponse, SendVersion, SendAuthWord, SendClientInit, SendPixelFormat,
         SendEncodings, SendFullRefresh, SendRequest, NothingToSend, Respond, connVars
    <3> QED
      BY DEF SendVersion, Respond, Past, Gate, Rank
  <2> QED
    BY <1>1, <2>1, <2>2 DEF Lines
<1> QED
  BY <1>1, <1>2, <1>3, <1>4, <1>5, <1>6, <1>7 DEF MainLoop, VncServerGetData

\* A setup message that is sent, and one that is read.
LEMMA QueuedSetup ==
    ASSUME NEW queue \in Seq(Messages), NEW r \in 0..3, NEW s \in 0..3, Queued(queue, r, s)
    PROVE  /\ s < 3 => Queued(Append(queue, Setup[s + 1]), r, s + 1)
           /\ r < 3 /\ queue # <<>> => Head(queue) = Setup[r + 1] /\ Queued(Tail(queue), r + 1, s)
<1>1. Len(queue) \in Nat /\ r <= s /\ s - r <= Len(queue)
  BY LenProperties DEF Queued
<1>2. ASSUME s < 3
      PROVE  Queued(Append(queue, Setup[s + 1]), r, s + 1)
  <2> DEFINE m == Setup[s + 1]
  <2>1. Len(queue) = s - r
    BY <1>2 DEF Queued
  <2>2. m \in Messages
    BY <1>2 DEF Setup, Messages, MessageSize
  <2>3. /\ Len(Append(queue, m)) = Len(queue) + 1
        /\ Append(queue, m)[Len(queue) + 1] = m
        /\ \A i \in 1..Len(queue) : Append(queue, m)[i] = queue[i]
    BY <2>2, AppendProperties
  <2>4. ASSUME NEW i \in 1..(Len(queue) + 1)
        PROVE  i <= s + 1 - r /\ Append(queue, m)[i] = Setup[r + i]
    <3>1. CASE i = Len(queue) + 1
      <4>1. r + i = s + 1
        BY <1>1, <2>1, <3>1
      <4> QED
        BY <1>1, <2>1, <2>3, <3>1, <4>1
    <3>2. CASE i # Len(queue) + 1
      <4>1. i \in 1..Len(queue) /\ i <= s - r
        BY <1>1, <2>1, <3>2
      <4>2. queue[i] = Setup[r + i]
        BY <4>1 DEF Queued
      <4> HIDE DEF m
      <4> QED
        BY <1>1, <2>3, <4>1, <4>2
    <3> QED
      BY <3>1, <3>2
  <2> HIDE DEF m
  <2>5. Queued(Append(queue, m), r, s + 1)
    BY <1>1, <2>1, <2>3, <2>4 DEF Queued
  <2> QED
    BY <2>5 DEF m
<1>3. ASSUME r < 3, queue # <<>>
      PROVE  Head(queue) = Setup[r + 1] /\ Queued(Tail(queue), r + 1, s)
  <2>1. /\ Len(queue) >= 1 /\ Len(Tail(queue)) = Len(queue) - 1 /\ Head(queue) = queue[1]
        /\ \A i \in 1..(Len(queue) - 1) : Tail(queue)[i] = queue[i + 1]
    BY <1>1, <1>3, EmptySeq, HeadTailProperties
  <2>2. r < s
    BY <1>1, <1>3, <2>1 DEF Queued
  <2>3. Head(queue) = Setup[r + 1]
    BY <1>1, <2>1, <2>2 DEF Queued
  <2>4. ASSUME NEW i \in 1..(Len(queue) - 1)
        PROVE  IF i <= s - (r + 1) THEN Tail(queue)[i] = Setup[r + 1 + i]
                                   ELSE Tail(queue)[i] \in Asking
    <3>1. i + 1 \in 1..Len(queue) /\ Tail(queue)[i] = queue[i + 1]
      BY <1>1, <2>1
    <3>2. IF i + 1 <= s - r THEN queue[i + 1] = Setup[r + (i + 1)] ELSE queue[i + 1] \in Asking
      BY <3>1 DEF Queued
    <3>3. r + (i + 1) = r + 1 + i /\ (i + 1 <= s - r <=> i <= s - (r + 1))
      BY <1>1
    <3> QED
      BY <3>1, <3>2, <3>3
  <2>5. s < 3 => Len(queue) = s - r
    BY DEF Queued
  <2>6. /\ r + 1 <= s /\ s - (r + 1) <= Len(Tail(queue))
        /\ s < 3 => Len(Tail(queue)) = s - (r + 1)
    BY <1>1, <2>1, <2>2, <2>5
  <2>7. Queued(Tail(queue), r + 1, s)
    BY <2>1, <2>4, <2>6 DEF Queued
  <2> QED
    BY <2>3, <2>7
<1> QED
  BY <1>2, <1>3

\* A request or a key event that is sent, and one that is read.
LEMMA QueuedAsking ==
    ASSUME NEW queue \in Seq(Messages), NEW r \in 0..3, Queued(queue, r, 3)
    PROVE  /\ \A m \in Asking : Queued(Append(queue, m), r, 3)
           /\ r = 3 /\ queue # <<>> => Head(queue) \in Asking /\ Queued(Tail(queue), 3, 3)
<1>1. Len(queue) \in Nat /\ 3 - r <= Len(queue)
  BY LenProperties DEF Queued
<1>2. ASSUME NEW m \in Asking
      PROVE  Queued(Append(queue, m), r, 3)
  <2>1. m \in Messages
    BY KeyNames DEF Asking, Messages, MessageSize
  <2>2. /\ Len(Append(queue, m)) = Len(queue) + 1
        /\ Append(queue, m)[Len(queue) + 1] = m
        /\ \A i \in 1..Len(queue) : Append(queue, m)[i] = queue[i]
    BY <2>1, AppendProperties
  <2>3. ASSUME NEW i \in 1..(Len(queue) + 1)
        PROVE  IF i <= 3 - r THEN Append(queue, m)[i] = Setup[r + i]
                             ELSE Append(queue, m)[i] \in Asking
    <3>1. CASE i = Len(queue) + 1
      BY <1>1, <2>2, <3>1
    <3>2. CASE i # Len(queue) + 1
      <4>1. i \in 1..Len(queue) /\ Append(queue, m)[i] = queue[i]
        BY <1>1, <2>2, <3>2
      <4> QED
        BY <4>1 DEF Queued
    <3> QED
      BY <3>1, <3>2
  <2>4. r <= 3 /\ 3 - r <= Len(Append(queue, m)) /\ ~(3 < 3)
    BY <1>1, <2>2
  <2> QED
    BY <2>2, <2>3, <2>4 DEF Queued
<1>3. ASSUME r = 3, queue # <<>>
      PROVE  Head(queue) \in Asking /\ Queued(Tail(queue), 3, 3)
  <2>1. /\ Len(queue) >= 1 /\ Len(Tail(queue)) = Len(queue) - 1 /\ Head(queue) = queue[1]
        /\ \A i \in 1..(Len(queue) - 1) : Tail(queue)[i] = queue[i + 1]
    BY <1>1, <1>3, EmptySeq, HeadTailProperties
  <2>2. \A i \in 1..Len(queue) : queue[i] \in Asking
    BY <1>3 DEF Queued
  <2>3. Head(queue) \in Asking
    BY <1>1, <2>1, <2>2
  <2>4. ASSUME NEW i \in 1..(Len(queue) - 1)
        PROVE  ~(i <= 3 - 3) /\ Tail(queue)[i] \in Asking
    <3>1. i + 1 \in 1..Len(queue)
      BY <1>1
    <3> QED
      BY <2>1, <2>2, <3>1
  <2>5. 3 - 3 <= Len(Tail(queue)) /\ ~(3 < 3)
    BY <1>1, <2>1
  <2> QED
    BY <2>1, <2>3, <2>4, <2>5 DEF Queued
<1> QED
  BY <1>2, <1>3

\* An empty queue: everything that was sent has been read.
LEMMA QueuedNone == Queued(<<>>, 0, 0)
BY DEF Queued

\* Where the connection and the bytes to parse stay, so does the session.
LEMMA SessionStays ==
    ASSUME Session, UNCHANGED <<srv, toServer, VNCstate, VNCsendState>>,
           Unread(buf', rx') = Unread(buf, rx),
           Unread(buf, rx) >= 4 => Fourth(buf', rx') = Fourth(buf, rx)
    PROVE  Session'
<1>1. VersionStage => VersionStage'
  BY DEF VersionStage, Holding, Said
<1>2. AuthWordStage => AuthWordStage'
  BY DEF AuthWordStage, Holding, Said
<1>3. ClientInitStage => ClientInitStage'
  BY DEF ClientInitStage, Holding, Said
<1>4. RefusedStage => RefusedStage'
  BY DEF RefusedStage, Holding, Said
<1>5. SetupStage => SetupStage'
  BY DEF SetupStage
<1> QED
  BY <1>1, <1>2, <1>3, <1>4, <1>5 DEF Session

\* A call of Vnc_StateMachine takes the session further.
LEMMA ParseSession ==
    ASSUME TypeOK, Session, Vnc_StateMachine, srv' = srv
    PROVE  Session'
<1>1. /\ UNCHANGED <<rx, toServer>>
      /\ \/ UNCHANGED <<buf, connVars>>
         \/ ParsedVersion \/ ParsedAuthType \/ ParsedAuthWord \/ ParsedVerdict
         \/ ParsedLater
  BY ParseStep
<1>2. Len(buf) \in Nat /\ Len(rx) \in Nat /\ Len(buf) <= Unread(buf, rx)
  BY LenProperties DEF TypeOK, Unread
<1>3. CASE UNCHANGED <<buf, connVars>>
  BY <1>1, <1>3, SessionStays DEF connVars
<1>4. CASE ~UNCHANGED <<buf, connVars>>
  <2> USE DEF ParsedVersion, ParsedAuthType, ParsedAuthWord, ParsedVerdict, Advance, Took,
          Holding, Said
  <2>1. CASE srv = "closed"
    BY <2>1 DEF Session
  <2>2. CASE srv = "version"
    <3>1. VersionStage
      BY <2>2 DEF Session, SetupRead
    <3>2. VersionStage'
      BY <1>1, <1>2, <1>4, <3>1 DEF VersionStage, ParsedLater, PastResponse, PastName
    <3> QED
      BY <2>2, <3>2 DEF Session
  <2>3. CASE srv = "authWord"
    <3>1. AuthWordStage
      BY <2>3 DEF Session, SetupRead
    <3>2. AuthWordStage'
      BY <1>1, <1>2, <1>4, <3>1 DEF AuthWordStage, ParsedLater, PastResponse, PastName
    <3> QED
      BY <2>3, <3>2 DEF Session
  <2>4. CASE srv = "clientInit"
    <3>1. ClientInitStage
      BY <2>4 DEF Session, SetupRead
    <3>2. ClientInitStage'
      BY <1>1, <1>2, <1>4, <3>1 DEF ClientInitStage, ParsedLater, PastResponse, PastName
    <3> QED
      BY <2>4, <3>2 DEF Session
  <2>5. CASE srv = "refused"
    <3>1. RefusedStage
      BY <2>5 DEF Session, SetupRead
    <3>2. RefusedStage'
      BY <1>1, <1>2, <1>4, <3>1 DEF RefusedStage, ParsedLater, PastResponse, PastName
    <3> QED
      BY <2>5, <3>2 DEF Session
  <2>6. CASE srv \in DOMAIN SetupRead
    <3>1. SetupStage
      BY <2>6 DEF Session, SetupRead
    <3>2. VNCstate' \in Settled /\ VNCsendState' = VNCsendState
      BY <1>1, <1>4, <3>1 DEF SetupStage, ParsedLater, Settled, PastResponse, PastName
    <3>3. SetupStage'
      BY <1>1, <3>1, <3>2 DEF SetupStage
    <3> QED
      BY <2>6, <3>3 DEF Session
  <2> QED
    BY <2>1, <2>2, <2>3, <2>4, <2>5, <2>6 DEF Session
<1> QED
  BY <1>3, <1>4

\* So does a message that is sent.
LEMMA SendSession ==
    ASSUME TypeOK, Session, SendResponse, srv' = srv, srv # "closed",
           Room >= MAXIMUM_VNCMESSAGE_SIZE
    PROVE  Session'
<1>1. UNCHANGED <<rx, buf, VNCstate>>
  BY SendStep
<1>2. \A m : Append(<<>>, m) = <<m>>
  OBVIOUS
<1>3. CASE UNCHANGED <<toServer, VNCsendState>>
  BY <1>1, <1>3, SessionStays
<1>4. CASE ~UNCHANGED <<toServer, VNCsendState>>
  <2> USE DEF Answered, Holding, Said, PastConnect, PastAuthWord, PastResponse, PastName
  <2>1. CASE srv = "version"
    <3>1. VersionStage
      BY <2>1 DEF Session, SetupRead
    <3>2. VersionStage'
      BY <1>1, <1>2, <1>4, <3>1, SendStep DEF VersionStage
    <3> QED
      BY <2>1, <3>2 DEF Session
  <2>2. CASE srv = "authWord"
    <3>1. AuthWordStage
      BY <2>2 DEF Session, SetupRead
    <3>2. AuthWordStage'
      BY <1>1, <1>2, <1>4, <3>1, SendStep DEF AuthWordStage
    <3> QED
      BY <2>2, <3>2 DEF Session
  <2>3. CASE srv = "clientInit"
    <3>1. ClientInitStage
      BY <2>3 DEF Session, SetupRead
    <3>2. ClientInitStage'
      BY <1>1, <1>2, <1>4, <3>1, SendStep DEF ClientInitStage
    <3> QED
      BY <2>3, <3>2 DEF Session
  <2>4. CASE srv = "refused"
    <3>1. RefusedStage
      BY <2>4 DEF Session, SetupRead
    <3> QED
      BY <1>1, <1>4, <3>1, SendStep DEF RefusedStage
  <2>5. CASE srv \in DOMAIN SetupRead
    <3> DEFINE r == SetupRead[srv]
    <3>1. SetupStage
      BY <2>5 DEF Session, SetupRead
    <3>2. r \in 0..3 /\ toServer \in Seq(Messages) /\ VNCsendState \in DOMAIN SetupSent
          /\ Queued(toServer, r, SetupSent[VNCsendState])
      BY <2>5, <3>1 DEF SetupStage, SetupRead, TypeOK
    <3> HIDE DEF r
    <3>3. VNCsendState' \in DOMAIN SetupSent /\ Queued(toServer', r, SetupSent[VNCsendState'])
      <4>1. CASE Answered("CLIENTINITMESSAGESENT", "pixelFormat", "PIXELFORMATSENT")
        <5>1. Queued(toServer, r, 0)
          BY <3>2, <4>1 DEF SetupSent
        <5>2. Queued(Append(toServer, Setup[0 + 1]), r, 0 + 1)
          BY <3>2, <5>1, QueuedSetup
        <5> QED
          BY <4>1, <5>2 DEF Setup, SetupSent
      <4>2. CASE Answered("PIXELFORMATSENT", "encodings", "ENCODINGTYPESENT")
        <5>1. Queued(toServer, r, 1)
          BY <3>2, <4>2 DEF SetupSent
        <5>2. Queued(Append(toServer, Setup[1 + 1]), r, 1 + 1)
          BY <3>2, <5>1, QueuedSetup
        <5> QED
          BY <4>2, <5>2 DEF Setup, SetupSent
      <4>3. CASE Answered("ENCODINGTYPESENT", "fullRefresh", "PARTIALREFRESHSENT")
        <5>1. Queued(toServer, r, 2)
          BY <3>2, <4>3 DEF SetupSent
        <5>2. Queued(Append(toServer, Setup[2 + 1]), r, 2 + 1)
          BY <3>2, <5>1, QueuedSetup
        <5> QED
          BY <4>3, <5>2 DEF Setup, SetupSent
      <4>4. ASSUME NEW m \in Asking, Answered("PARTIALREFRESHSENT", m, "PARTIALREFRESHSENT")
            PROVE  VNCsendState' \in DOMAIN SetupSent
                   /\ Queued(toServer', r, SetupSent[VNCsendState'])
        <5>1. Queued(toServer, r, 3)
          BY <3>2, <4>4 DEF SetupSent
        <5>2. Queued(Append(toServer, m), r, 3)
          BY <3>2, <5>1, QueuedAsking
        <5> QED
          BY <4>4, <5>2 DEF SetupSent
      <4>5. VNCsendState \notin {"INIT", "VERSIONSENT", "AUTHWORDSENT"}
        BY <3>2 DEF SetupSent
      <4> QED
        BY <1>4, <4>1, <4>2, <4>3, <4>4, <4>5, SendStep
    <3>4. SetupStage'
      BY <1>1, <3>1, <3>3 DEF SetupStage, r
    <3> QED
      BY <2>5, <3>4 DEF Session
  <2> QED
    BY <2>1, <2>2, <2>3, <2>4, <2>5 DEF Session
<1> QED
  BY <1>3, <1>4

\* The program keeps to the session.
LEMMA ClientSession ==
    ASSUME TypeOK, PromptHost, Lines, Session, Client
    PROVE  Session'
<1>1. MainLoop /\ srv' = srv
  BY DEF Client, srvVars
<1>2. CASE srv = "closed"
  BY <1>1, <1>2 DEF Session
<1>3. CASE srv # "closed"
  <2>1. CASE VncServerGetData
    <3>1. ~GetDataDisconnected
      BY <1>3 DEF Lines, GetDataDisconnected
    <3>2. CASE ReadBytes
      BY <1>1, <2>1, <3>2, GetDataStep, ReadKeeps, SessionStays DEF connVars, ReadBytes
    <3>3. CASE ~ReadBytes
      BY <1>1, <2>1, <3>1, <3>3, GetDataStep, SessionStays DEF connVars
    <3> QED
      BY <3>2, <3>3
  <2>2. CASE Vnc_StateMachine
    BY <1>1, <2>2, ParseSession
  <2>3. CASE Buttons_Handler
    BY <1>1, <2>3, SessionStays DEF Buttons_Handler, envVars, connVars
  <2>4. CASE SendResponse
    <3>1. pc = "respond"
      BY <2>4 DEF SendResponse, SendVersion, SendAuthWord, SendClientInit, SendPixelFormat,
         SendEncodings, SendFullRefresh, SendRequest, NothingToSend, Respond
    <3>2. Room >= MAXIMUM_VNCMESSAGE_SIZE
      BY <1>3, <3>1 DEF Client, RoomInTime
    <3> QED
      BY <1>1, <1>3, <2>4, <3>2, SendSession
  <2> QED
    BY <1>1, <2>1, <2>2, <2>3, <2>4 DEF MainLoop
<1> QED
  BY <1>2, <1>3

\* The server only ever reads what the session lets it find, and what it then
\* writes is what the client goes on to parse.
LEMMA ServerSession ==
    ASSUME TypeOK, Counters, Lines, Session, Server \/ ServerBell
    PROVE  Session'
<1>1. UNCHANGED <<buf, VNCstate, VNCsendState>>
  BY DEF Server, ServerVersion, ServerAuthWord, ServerClientInit, ServerSetup,
     ServerRequest, ServerKey, ServerUpdate, ServerBell, Quiet, clientKept, connVars
<1>2. \A m : Tail(<<m>>) = <<>> /\ <<m>> # <<>>
  OBVIOUS
<1>3. CASE ServerVersion
  <2>1. PICK t \in AuthTypes :
          /\ Receive("version", "version",
                     CASE t = 1 -> "clientInit" [] t = 2 -> "authWord" [] OTHER -> "refused")
          /\ IF t = 2 THEN Send(<<0, 0, 0, 2>> \o Rfb!Zeros(16), {4, 20})
                      ELSE Send(<<0, 0, 0, t>>, {4})
    BY <1>3 DEF ServerVersion
  <2>2. srv = "version" /\ toServer # <<>> /\ toServer' = Tail(toServer)
    BY <2>1 DEF Receive
  <2>3. Holding("WAITFORAUTHTYPE", 0) /\ Said("VERSIONSENT", <<"version">>)
    BY <2>2 DEF Session, SetupRead, VersionStage, Said
  <2>4. VNCstate' = "WAITFORAUTHTYPE" /\ VNCsendState' = "VERSIONSENT" /\ toServer' = <<>>
    BY <1>1, <1>2, <2>2, <2>3 DEF Holding, Said
  <2>5. Unread(buf, rx) = 0 /\ t \in Byte
    BY <2>3, ServerAssumption DEF Holding
  <2>6. CASE t = 2
    <3> DEFINE bytes == <<0, 0, 0, 2>> \o Rfb!Zeros(16)
    <3>1. rx' = rx \o bytes /\ bytes \in Seq(Byte) /\ Len(bytes) = 20 /\ bytes[4] = 2
      BY <2>1, <2>6, AuthMessage DEF Send
    <3> HIDE DEF bytes
    <3>2. Unread(buf', rx') = 20 /\ Fourth(buf', rx') = 2
      <4>1. /\ Unread(buf', rx') = Len(bytes)
            /\ Len(bytes) >= 4 => Fourth(buf', rx') = bytes[4]
        BY <1>1, <2>5, <3>1, SendAdds
      <4> QED
        BY <3>1, <4>1
    <3>3. AuthWordStage' /\ srv' = "authWord"
      BY <2>1, <2>4, <2>6, <3>2 DEF AuthWordStage, Holding, Said, Receive
    <3> QED
      BY <3>3 DEF Session
  <2>7. CASE t # 2
    <3> DEFINE bytes == <<0, 0, 0, t>>
    <3>1. rx' = rx \o bytes /\ bytes \in Seq(Byte) /\ Len(bytes) = 4 /\ bytes[4] = t
      BY <2>1, <2>5, <2>7, ServerBytes DEF Send
    <3> HIDE DEF bytes
    <3>2. Unread(buf', rx') = 4 /\ Fourth(buf', rx') = t
      <4>1. /\ Unread(buf', rx') = Len(bytes)
            /\ Len(bytes) >= 4 => Fourth(buf', rx') = bytes[4]
        BY <1>1, <2>5, <3>1, SendAdds
      <4> QED
        BY <3>1, <4>1
    <3>3. CASE t = 1
      <4>1. ClientInitStage' /\ srv' = "clientInit"
        BY <2>1, <2>4, <3>2, <3>3 DEF ClientInitStage, Holding, Said, Receive
      <4> QED
        BY <4>1 DEF Session
    <3>4. CASE t # 1
      <4>1. RefusedStage' /\ srv' = "refused"
        BY <2>1, <2>4, <2>7, <3>2, <3>4 DEF RefusedStage, Holding, Said, Receive
      <4> QED
        BY <4>1 DEF Session
    <3> QED
      BY <3>3, <3>4
  <2> QED
    BY <2>6, <2>7
<1>4. CASE ServerAuthWord
  <2>1. PICK r \in AuthResults :
          /\ Receive("authWord", "authWord", IF r = 0 THEN "clientInit" ELSE "refused")
          /\ Send(<<0, 0, 0, r>>, {4})
    BY <1>4 DEF ServerAuthWord
  <2>2. srv = "authWord" /\ toServer # <<>> /\ toServer' = Tail(toServer)
    BY <2>1 DEF Receive
  <2>3. Holding("WAITFORVNCAUTHRESPONSE", 0) /\ Said("AUTHWORDSENT", <<"authWord">>)
    BY <2>2 DEF Session, SetupRead, AuthWordStage, Said
  <2>4. /\ VNCstate' = "WAITFORVNCAUTHRESPONSE" /\ VNCsendState' = "AUTHWORDSENT"
        /\ toServer' = <<>>
    BY <1>1, <1>2, <2>2, <2>3 DEF Holding, Said
  <2>5. Unread(buf, rx) = 0 /\ r \in Byte
    BY <2>3, ServerAssumption DEF Holding
  <2> DEFINE bytes == <<0, 0, 0, r>>
  <2>6. rx' = rx \o bytes /\ bytes \in Seq(Byte) /\ Len(bytes) = 4 /\ bytes[4] = r
    BY <2>1, <2>5, ServerBytes DEF Send
  <2> HIDE DEF bytes
  <2>7. Unread(buf', rx') = 4 /\ Fourth(buf', rx') = r
    <3>1. /\ Unread(buf', rx') = Len(bytes)
          /\ Len(bytes) >= 4 => Fourth(buf', rx') = bytes[4]
      BY <1>1, <2>5, <2>6, SendAdds
    <3> QED
      BY <2>6, <3>1
  <2>8. CASE r = 0
    <3>1. ClientInitStage' /\ srv' = "clientInit"
      BY <2>1, <2>4, <2>7, <2>8 DEF ClientInitStage, Holding, Said, Receive
    <3> QED
      BY <3>1 DEF Session
  <2>9. CASE r # 0
    <3>1. RefusedStage' /\ srv' = "refused"
      BY <2>1, <2>4, <2>7, <2>9 DEF RefusedStage, Holding, Said, Receive
    <3> QED
      BY <3>1 DEF Session
  <2> QED
    BY <2>8, <2>9
<1>5. CASE ServerClientInit
  <2>1. /\ srv = "clientInit" /\ toServer # <<>> /\ toServer' = Tail(toServer)
        /\ srv' = "pixelFormat"
    BY <1>5 DEF ServerClientInit, Receive
  <2>2. Holding("SENTCLIENTINITMESSAGE", 0) /\ Said("CLIENTINITMESSAGESENT", <<"clientInit">>)
    BY <2>1 DEF Session, SetupRead, ClientInitStage, Said
  <2>3. /\ VNCstate' = "SENTCLIENTINITMESSAGE" /\ VNCsendState' = "CLIENTINITMESSAGESENT"
        /\ toServer' = <<>>
    BY <1>1, <1>2, <2>1, <2>2 DEF Holding, Said
  <2>4. SetupStage'
    BY <2>1, <2>3, QueuedNone DEF SetupStage, Settled, PastResponse, SetupSent, SetupRead
  <2> QED
    BY <2>1, <2>4 DEF Session, SetupRead
<1>6. CASE ServerSetup \/ ServerRequest \/ ServerKey
  <2> DEFINE r == SetupRead[srv]
             s == SetupSent[VNCsendState]
  <2>1. toServer # <<>> /\ toServer' = Tail(toServer) /\ srv \in DOMAIN SetupRead
    BY <1>6 DEF ServerSetup, ServerRequest, ServerKey, Receive, SetupRead
  <2>2. SetupStage
    BY <2>1 DEF Session, SetupRead
  <2>3. /\ toServer \in Seq(Messages) /\ r \in 0..3 /\ s \in 0..3
        /\ Queued(toServer, r, s)
    BY <2>1, <2>2 DEF TypeOK, SetupStage, SetupRead, SetupSent
  <2>4. CASE srv = "running"
    <3>1. srv' = "running" /\ r = 3
      BY <1>6, <2>4 DEF ServerSetup, ServerRequest, ServerKey, Receive, SetupRead
    <3>2. s = 3
      BY <2>3, <3>1 DEF Queued
    <3>3. Queued(Tail(toServer), 3, 3)
      BY <2>1, <2>3, <3>1, <3>2, QueuedAsking
    <3>4. SetupStage'
      BY <1>1, <2>1, <2>2, <2>4, <3>1, <3>2, <3>3 DEF SetupStage
    <3> QED
      BY <2>1, <2>4, <3>1, <3>4 DEF Session
  <2>5. CASE srv # "running"
    <3>1. srv' \in DOMAIN SetupRead /\ SetupRead[srv'] = r + 1 /\ r < 3
      BY <1>6, <2>5 DEF ServerSetup, ServerRequest, ServerKey, Receive, SetupRead
    <3>2. Queued(Tail(toServer), r + 1, s)
      BY <2>1, <2>3, <3>1, QueuedSetup
    <3>3. SetupStage'
      BY <1>1, <2>1, <2>2, <3>1, <3>2 DEF SetupStage
    <3> QED
      BY <3>1, <3>3 DEF Session
  <2> QED
    BY <2>4, <2>5
<1>7. CASE ServerUpdate \/ ServerBell
  <2>1. srv = "running" /\ UNCHANGED <<srv, toServer>>
    BY <1>7 DEF ServerUpdate, ServerBell
  <2>2. SetupStage /\ srv \in DOMAIN SetupRead
    BY <2>1 DEF Session, SetupRead
  <2>3. SetupStage'
    BY <1>1, <2>1, <2>2 DEF SetupStage
  <2> QED
    BY <2>1, <2>2, <2>3 DEF Session
<1> QED
  BY <1>3, <1>4, <1>5, <1>6, <1>7 DEF Server

\* The server leaves the control lines alone.
LEMMA ServerLines ==
    ASSUME Lines, Server \/ ServerBell
    PROVE  Lines'
<1>1. UNCHANGED <<pc, lastControlState, control>>
  BY DEF Server, ServerVersion, ServerAuthWord, ServerClientInit, ServerSetup,
     ServerRequest, ServerKey, ServerUpdate, ServerBell, Quiet, clientKept
<1>2. srv # "closed" /\ srv' # "closed"
  BY DEF Server, ServerVersion, ServerAuthWord, ServerClientInit, ServerSetup,
     ServerRequest, ServerKey, ServerUpdate, ServerBell, Receive, KeyEvents
<1> QED
  BY <1>1, <1>2 DEF Lines

\* A patient host opens the port on a client that is reset, and begins the
\* session with the greeting alone under way.
LEMMA HostSession ==
    ASSUME TypeOK, PatientHost, ~FifoSurvives, Lines, Session,
           HostOpen \/ HostClose \/ Press \/ ReleaseButton
    PROVE  Lines' /\ Session'
<1>1. UNCHANGED <<pc, lastControlState, buf, VNCstate, VNCsendState>>
  BY DEF HostOpen, HostClose, Press, ReleaseButton, clientKept, connVars
<1>2. CASE HostOpen
  <2>1. /\ srv = "closed" /\ lastControlState = 0 /\ pc # "answer"
        /\ control' = 3 /\ srv' = "version" /\ rx' = rx \o Rfb!ProtocolVersion
        /\ toServer' = <<>>
    BY <1>2 DEF HostOpen
  <2>2. /\ rx = <<>> /\ buf = <<>> /\ VNCstate = "NOTCONNECTED" /\ VNCsendState = "INIT"
        /\ control = 0
    BY <2>1 DEF Lines
  <2>3. Lines'
    BY <1>1, <2>1, <2>2 DEF Lines
  <2>4. Unread(buf, rx) = 0
    BY <2>2 DEF Unread
  <2>5. Unread(buf', rx') = 12
    BY <1>1, <2>1, <2>4, ServerBytes, SendAdds
  <2>6. VersionStage'
    BY <1>1, <2>1, <2>2, <2>5 DEF VersionStage, Holding, Said
  <2> QED
    BY <2>1, <2>3, <2>6 DEF Session
<1>3. CASE HostClose
  <2>1. /\ srv # "closed" /\ lastControlState = control /\ control' = 0 /\ srv' = "closed"
        /\ rx' = SubSeq(rx, 1, 0)
    BY <1>3 DEF HostClose
  <2>2. rx' = <<>>
    BY <2>1
  <2>3. lastControlState = 3 /\ pc # "latch"
    BY <2>1 DEF Lines
  <2> QED
    BY <1>1, <2>1, <2>2, <2>3 DEF Lines, Session
<1>4. CASE Press \/ ReleaseButton
  <2>1. UNCHANGED <<rx, toServer, control, srv>>
    BY <1>4 DEF Press, ReleaseButton, srvVars
  <2> QED
    BY <1>1, <2>1, SessionStays DEF Lines
<1> QED
  BY <1>2, <1>3, <1>4

\* What a server finds in front of it is what it waits for.
LEMMA SessionLawful ==
    ASSUME TypeOK, Session
    PROVE  NoProtocolError
<1> SUFFICES ASSUME srv # "closed", toServer # <<>>
             PROVE  Head(toServer) \in IF srv = "running" THEN Asking ELSE {srv}
  BY DEF NoProtocolError, Asking
<1>1. \A m : Head(<<m>>) = m
  OBVIOUS
<1>2. CASE srv = "version"
  BY <1>1, <1>2 DEF Session, SetupRead, VersionStage, Said
<1>3. CASE srv = "authWord"
  BY <1>1, <1>3 DEF Session, SetupRead, AuthWordStage, Said
<1>4. CASE srv = "clientInit"
  BY <1>1, <1>4 DEF Session, SetupRead, ClientInitStage, Said
<1>5. CASE srv = "refused"
  BY <1>5 DEF Session, SetupRead, RefusedStage, Said
<1>6. CASE srv \in DOMAIN SetupRead
  <2> DEFINE r == SetupRead[srv]
             s == SetupSent[VNCsendState]
  <2>1. SetupStage
    BY <1>6 DEF Session, SetupRead
  <2>2. /\ toServer \in Seq(Messages) /\ r \in 0..3 /\ s \in 0..3
        /\ Queued(toServer, r, s)
    BY <1>6, <2>1 DEF TypeOK, SetupStage, SetupRead, SetupSent
  <2>3. CASE srv = "running"
    <3>1. r = 3
      BY <2>3 DEF SetupRead
    <3>2. s = 3
      BY <2>2, <3>1 DEF Queued
    <3>3. Head(toServer) \in Asking
      BY <2>2, <3>1, <3>2, QueuedAsking
    <3> QED
      BY <2>3, <3>3
  <2>4. CASE srv # "running"
    <3>1. r < 3 /\ Setup[r + 1] = srv
      BY <1>6, <2>4 DEF SetupRead, Setup
    <3>2. Head(toServer) = Setup[r + 1]
      BY <2>2, <3>1, QueuedSetup
    <3> QED
      BY <2>4, <3>1, <3>2
  <2> QED
    BY <2>3, <2>4
<1> QED
  BY <1>2, <1>3, <1>4, <1>5, <1>6 DEF Session

\* A host that reads in time and closes and opens the port no faster than the
\* loop notices keeps the client and the server in step.
LEMMA SessionHolds ==
    ASSUME PromptHost, PatientHost, ~FifoSurvives
    PROVE  SystemSpec => [](Lines /\ Session)
<1>1. SystemInit => Lines /\ Session
  BY DEF SystemInit, Init, ClientInit, EnvironmentInit, Lines, Session
<1>2. TypeOK /\ Counters /\ Lines /\ Session /\ [SystemNext]_allVars => (Lines /\ Session)'
  <2> SUFFICES ASSUME TypeOK, Counters, Lines, Session, [SystemNext]_allVars
               PROVE  Lines' /\ Session'
    OBVIOUS
  <2>1. CASE Client
    BY <2>1, ClientLines, ClientSession
  <2>2. CASE Server \/ ServerBell
    BY <2>2, ServerLines, ServerSession
  <2>3. CASE HostOpen \/ HostClose \/ Press \/ ReleaseButton
    BY <2>3, HostSession
  <2>4. CASE UNCHANGED allVars
    <3>1. UNCHANGED <<pc, rx, toServer, control, lastControlState, buf, VNCstate,
                      VNCsendState, srv>>
      BY <2>4 DEF allVars, srvVars, vars, envVars, connVars
    <3> QED
      BY <3>1, SessionStays DEF Lines
  <2> QED
    BY <2>1, <2>2, <2>3, <2>4 DEF SystemNext
<1> QED
  BY <1>1, <1>2, SystemTypes, PTL DEF SystemSpec

\* Vnc_LoadResponseBuffer sends one message a pass and looks only at VNCstate,
\* VncServerGetData resets the client only when it sees the port closed: as
\* long as the host reads in time, closes and opens the port no faster than
\* the loop notices and the endpoint is emptied by a close, no server ever
\* finds a message that RFB does not allow at that point, over any number of
\* sessions.
THEOREM ServerUnderstands ==
    ASSUME PromptHost, PatientHost, ~FifoSurvives
    PROVE  SystemSpec => []NoProtocolError
<1>1. TypeOK /\ Session => NoProtocolError
  BY SessionLawful
<1>2. SystemSpec => [](Lines /\ Session)
  BY SessionHolds
<1> QED
  BY <1>1, <1>2, SystemTypes, PTL
=============================================================================
