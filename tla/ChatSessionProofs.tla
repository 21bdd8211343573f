-------------------------- MODULE ChatSessionProofs --------------------------
(***************************************************************************)
(* Proofs about ChatSession, for any rooms, lines and descriptor limits:   *)
(* the types, and, when no line is of a length that the server cuts, that  *)
(* a sender and its worker stay in step, that what a sender was told was   *)
(* sent is what was broadcast, and that a receiver hears just that for as  *)
(* long as the Server and its rooms exist.                                 *)
(***************************************************************************)
EXTENDS ChatSession, FiniteSetTheorems, SequenceTheorems, TLAPS

(* The messages there are: one that says join names a room. *)
Texts == {m \in Messages : m.tag = "join" => m.body \in RoomNames}

ClientPlaces ==
  {"login", "loginReply", "input", "reply", "exited", "join", "joinReply", "listen"}
WorkerPlaces ==
  {"none", "refused", "login", "receive", "reply", "lastReply", "exited",
   "loginReply", "join", "joinReply", "add", "dequeue", "send", "stuck"}
NetStates == {"open", "closed", "probed", "reset"}
Rooms == RoomNames \cup {NoRoom}

ServerType == main \in {"accepts", "left", "exited"} /\ limit \in Limits
StreamType == up \in [Ends -> Seq(Texts)] /\ down \in [Ends -> Seq(Texts)]
PlaceType ==
  /\ net \in [Ends -> NetStates]
  /\ client \in [Ends -> ClientPlaces]
  /\ worker \in [Ends -> WorkerPlaces]
SenderType ==
  /\ answer \in Texts /\ asked \in Texts
  /\ rm \in Rooms /\ told \in Rooms
  /\ requests \in 0..MaxRequests
  /\ acked \in Seq(Rooms \X Bodies)
ReceiverType ==
  /\ home \in RoomNames /\ member \in BOOLEAN /\ out \in Texts
  /\ start \in Nat /\ printed \in Seq(Bodies)
QueueType == mqueue \in Seq(Texts) /\ sent \in Seq(RoomNames \X Bodies)

TypeInv ==
  /\ ServerType /\ StreamType /\ PlaceType
  /\ SenderType /\ ReceiverType /\ QueueType
-----------------------------------------------------------------------------
(* The conversation of a sender with its worker *)

(* No line the user types is cut by the server: it is shorter, or it is so  *)
(* long that sender.cpp refuses it.                                         *)
LinesFit ==
  \A len \in DataLengths :
    Size(Message("sendall", len, NoBody)) <= ReadLimit \/ len > MAX_LEN

Request(m) ==
  /\ m.tag \in {"join", "leave", "quit", "sendall"}
  /\ m.nl /\ Size(m) <= ReadLimit /\ checkStyle(m)

Unserved == {"none", "refused", "login", "exited"}

(* only the end of the server ends the worker *)
Served == worker["sender"] = "exited" => main = "exited"

Quiet == up["sender"] = << >> /\ down["sender"] = << >>

Settled == told = rm /\ sent = acked

LoginMessage == Message("slogin", Short, NoBody)

AtLogin ==
  client["sender"] = "login" =>
    Quiet /\ Settled /\ Served /\ worker["sender"] \in Unserved

AtLoginReply ==
  client["sender"] = "loginReply" =>
    /\ Settled /\ Served
    /\ \/ /\ up["sender"] = <<LoginMessage>> /\ down["sender"] = << >>
          /\ worker["sender"] \in Unserved
       \/ Quiet /\ worker["sender"] \in {"reply", "exited"} /\ answer = Ok
       \/ /\ up["sender"] = << >> /\ down["sender"] = <<Ok>>
          /\ worker["sender"] \in {"receive", "exited"}

AtInput ==
  client["sender"] = "input" =>
    Quiet /\ Settled /\ Served /\ worker["sender"] \in {"receive", "exited"}

(* The worker has done what was asked; the client will when it reads the    *)
(* answer.                                                                  *)
Handled ==
  /\ answer \in {Ok, Err}
  /\ rm = CASE answer = Ok /\ asked.tag = "join"  -> asked.body
            [] answer = Ok /\ asked.tag = "leave" -> NoRoom
            [] OTHER                              -> told
  /\ sent = IF answer = Ok /\ asked.tag = "sendall"
            THEN Append(acked, <<told, asked.body>>) ELSE acked

AtReply ==
  client["sender"] = "reply" =>
    /\ Request(asked)
    /\ asked.tag # "quit" => Served
    /\ \/ /\ up["sender"] = <<asked>> /\ down["sender"] = << >> /\ Settled
          /\ worker["sender"] \in {"receive", "exited"}
       \/ /\ Quiet /\ Handled
          /\ worker["sender"] \in {IF asked.tag = "quit" THEN "lastReply" ELSE "reply", "exited"}
       \/ Quiet /\ Settled /\ worker["sender"] \in {"stuck", "exited"}
       \/ /\ up["sender"] = << >> /\ down["sender"] = <<answer>> /\ Handled
          /\ worker["sender"] \in {IF asked.tag = "quit" THEN "exited" ELSE "receive", "exited"}

(* What is left of the conversation when the client is gone. *)
AtExit ==
  client["sender"] = "exited" =>
    \/ /\ sent = acked
       /\ \/ up["sender"] = << >>
          \/ up["sender"] = <<LoginMessage>>
          \/ up["sender"] = <<asked>> /\ Request(asked)
    \/ up["sender"] = << >> /\ IsPrefix(acked, sent) /\ Len(sent) = Len(acked) + 1

Conversation ==
  /\ client["sender"] \in {"login", "loginReply", "input", "reply", "exited"}
  /\ client["sender"] # "exited" => net["sender"] = "open"
  /\ AtLogin /\ AtLoginReply /\ AtInput /\ AtReply /\ AtExit
-----------------------------------------------------------------------------
(* Messages and streams *)

LEMMA TagsAre ==
  /\ DOMAIN TagLength = {"err", "ok", "slogin", "rlogin", "join", "leave",
                         "sendall", "quit", "delivery"}
  /\ "none" \notin DOMAIN TagLength
  /\ \A tag \in DOMAIN TagLength : TagLength[tag] \in 2..8
BY DEF TagLength

LEMMA PrefixType == ASSUME NEW m PROVE Prefix(m) \in 0..9
<1>1. CASE m.tag \in DOMAIN TagLength
  <2>1. TagLength[m.tag] \in 2..8
    BY <1>1, TagsAre
  <2> QED BY <1>1, <2>1 DEF Prefix
<1>2. CASE m.tag \notin DOMAIN TagLength
  BY <1>2 DEF Prefix
<1> QED BY <1>1, <1>2

LEMMA LimitType == ReadLimit \in Nat /\ ReadLimit >= 15
BY MaxLenAssumption, LineAssumption DEF ReadLimit

LEMMA TextIs ==
  ASSUME NEW m \in Texts
  PROVE  /\ m \in [tag : Tags, len : Nat, body : Bodies, nl : BOOLEAN]
         /\ m.tag \in Tags /\ m.len \in Nat /\ m.body \in Bodies /\ m.nl \in BOOLEAN
         /\ m.tag = "join" => m.body \in RoomNames
         /\ Prefix(m) \in Nat /\ Size(m) \in Nat
<1>1. /\ m.tag \in Tags /\ m.len \in Nat /\ m.body \in Bodies /\ m.nl \in BOOLEAN
      /\ m.tag = "join" => m.body \in RoomNames
      /\ m \in [tag : Tags, len : Nat, body : Bodies, nl : BOOLEAN]
  BY DEF Texts, Messages
<1>2. Prefix(m) \in Nat
  BY PrefixType
<1> QED BY <1>1, <1>2 DEF Size

LEMMA TextMade ==
  ASSUME NEW tag \in Tags, NEW len \in Nat, NEW body \in Bodies, NEW nl \in BOOLEAN,
         tag = "join" => body \in RoomNames
  PROVE  [tag |-> tag, len |-> len, body |-> body, nl |-> nl] \in Texts
BY DEF Texts, Messages

LEMMA TextCut ==
  ASSUME NEW m \in Texts, NEW len \in Nat, NEW nl \in BOOLEAN
  PROVE  [m EXCEPT !.len = len, !.nl = nl] \in Texts
<1> DEFINE r == [m EXCEPT !.len = len]
           q == [r EXCEPT !.nl = nl]
<1>1. m \in Messages /\ (m.tag = "join" => m.body \in RoomNames)
  BY DEF Texts
<1>2. r \in Messages /\ r.tag = m.tag /\ r.body = m.body
  BY <1>1 DEF Messages
<1> HIDE DEF r
<1>3. q \in Messages /\ q.tag = r.tag /\ q.body = r.body
  BY <1>2 DEF Messages
<1>4. q = [m EXCEPT !.len = len, !.nl = nl]
  BY <1>1 DEF r, Messages
<1> HIDE DEF q
<1>5. q \in Texts
  BY <1>1, <1>2, <1>3 DEF Texts
<1> QED BY <1>4, <1>5

LEMMA TextLeft ==
  ASSUME NEW m \in Texts, NEW len \in Nat, NEW tag \in Tags, tag # "join"
  PROVE  [m EXCEPT !.tag = tag, !.len = len] \in Texts
<1> DEFINE r == [m EXCEPT !.tag = tag]
           q == [r EXCEPT !.len = len]
<1>1. m \in Messages
  BY DEF Texts
<1>2. r \in Messages /\ r.tag = tag
  BY <1>1 DEF Messages
<1> HIDE DEF r
<1>3. q \in Messages /\ q.tag = r.tag
  BY <1>2 DEF Messages
<1>4. q = [m EXCEPT !.tag = tag, !.len = len]
  BY <1>1 DEF r, Messages
<1> HIDE DEF q
<1>5. q \in Texts
  BY <1>2, <1>3 DEF Texts
<1> QED BY <1>4, <1>5

LEMMA NoBodyType == NoBody \in Bodies
BY LengthsAssumption DEF NoBody, Bodies

LEMMA OkErr ==
  /\ Ok \in Texts /\ Err \in Texts
  /\ Ok.tag = "ok" /\ Err.tag = "err" /\ Ok # Err
  /\ Ok.nl /\ Err.nl /\ Size(Ok) <= ReadLimit /\ Size(Err) <= ReadLimit
<1>1. "ok" \in Tags /\ "err" \in Tags /\ 1 \in Nat /\ Short \in Nat
  BY TagsAre DEF Tags, Short
<1>2. Ok \in Texts /\ Err \in Texts
  BY <1>1, NoBodyType, TextMade DEF Ok, Err, Message
<1>3. Ok.tag = "ok" /\ Err.tag = "err" /\ Ok.nl /\ Err.nl /\ Ok.len = 1 /\ Err.len = 8
  BY DEF Ok, Err, Message, Short
<1>4. Prefix(Ok) \in 0..9 /\ Prefix(Err) = 4
  <2>1. TagLength["err"] = 3 /\ "err" \in DOMAIN TagLength
    BY DEF TagLength
  <2> QED BY <1>3, <2>1, PrefixType DEF Prefix
<1>5. Size(Ok) <= 15 /\ Size(Err) <= 15
  BY <1>3, <1>4 DEF Size
<1>6. Size(Ok) \in Nat /\ Size(Err) \in Nat
  BY <1>2, TextIs
<1> QED BY <1>2, <1>3, <1>5, <1>6, LimitType

LEMMA LoginFits ==
  /\ LoginMessage \in Texts /\ LoginMessage.tag = "slogin" /\ LoginMessage.nl
  /\ Size(LoginMessage) <= ReadLimit
<1>1. "slogin" \in Tags /\ Short \in Nat
  BY TagsAre DEF Tags, Short
<1>2. LoginMessage \in Texts
  BY <1>1, NoBodyType, TextMade DEF LoginMessage, Message
<1>3. LoginMessage.tag = "slogin" /\ LoginMessage.nl /\ LoginMessage.len = 8
  BY DEF LoginMessage, Message, Short
<1>4. TagLength["slogin"] = 6 /\ "slogin" \in DOMAIN TagLength
  BY DEF TagLength
<1>5. Size(LoginMessage) = 15
  BY <1>3, <1>4 DEF Size, Prefix
<1> QED BY <1>2, <1>3, <1>5, LimitType

LEMMA EofType == Eof(NoBody) \in Texts /\ Eof(NoBody).tag = "none" /\ Eof(NoBody).len = 0
<1>1. "none" \in Tags
  BY DEF Tags
<1> QED BY <1>1, NoBodyType, TextMade DEF Eof

LEMMA LastOf ==
  ASSUME NEW S, NEW s \in Seq(S), s # << >>
  PROVE  Last(s) \in S /\ Front(s) \in Seq(S)
BY DEF Last, Front

LEMMA WrittenType ==
  ASSUME NEW s \in Seq(Texts), NEW m \in Texts
  PROVE  Written(s, m) \in Seq(Texts) /\ (s = << >> => Written(s, m) = <<m>>)
<1>1. CASE s # << >> /\ ~Last(s).nl
  <2> DEFINE l == Last(s)
             k == [l EXCEPT !.len = l.len + Size(m), !.nl = m.nl]
  <2>1. l \in Texts /\ Front(s) \in Seq(Texts)
    BY <1>1, LastOf
  <2>2. Written(s, m) = Append(Front(s), k)
    BY <1>1 DEF Written
  <2> HIDE DEF l
  <2>3. l.len + Size(m) \in Nat /\ m.nl \in BOOLEAN
    BY <2>1, TextIs
  <2>4. k \in Texts
    BY <2>1, <2>3, TextCut
  <2> HIDE DEF k
  <2> QED BY <1>1, <2>1, <2>2, <2>4
<1>2. CASE ~(s # << >> /\ ~Last(s).nl)
  <2>1. Written(s, m) = Append(s, m)
    BY <1>2 DEF Written
  <2>2. Append(s, m) \in Seq(Texts) /\ Append(<< >>, m) = <<m>>
    OBVIOUS
  <2> QED BY <2>1, <2>2
<1> QED BY <1>1, <1>2

LEMMA ReceivedType ==
  ASSUME NEW s \in Seq(Texts), s # << >>
  PROVE  Received(s) \in Texts /\ Remaining(s) \in Seq(Texts)
<1> DEFINE m == Head(s)
<1>1. m \in Texts /\ Tail(s) \in Seq(Texts)
  OBVIOUS
<1> HIDE DEF m
<1>2. CASE Size(m) <= ReadLimit
  BY <1>1, <1>2 DEF Received, Remaining, m
<1>3. CASE ~(Size(m) <= ReadLimit)
  <2> DEFINE p == [m EXCEPT !.len = ReadLimit - Prefix(m), !.nl = FALSE]
             r == [m EXCEPT !.tag = "none", !.len = Size(m) - ReadLimit]
  <2>1. Received(s) = p /\ Remaining(s) = <<r>> \o Tail(s)
    BY <1>3 DEF Received, Remaining, m
  <2>2. ReadLimit - Prefix(m) \in Nat
    BY PrefixType, LimitType
  <2>3. Size(m) - ReadLimit \in Nat
    <3>1. Size(m) \in Nat
      BY <1>1, TextIs
    <3> QED BY <1>3, <3>1, LimitType
  <2>4. p \in Texts
    BY <1>1, <2>2, TextCut
  <2>5. r \in Texts
    <3>1. "none" \in Tags
      BY DEF Tags
    <3> QED BY <1>1, <2>3, <3>1, TextLeft
  <2> HIDE DEF p, r
  <2>6. <<r>> \in Seq(Texts)
    BY <2>5
  <2> QED BY <1>1, <2>1, <2>4, <2>6, ConcatProperties
<1> QED BY <1>2, <1>3

(* A message that fits a line is received as it was sent. *)
LEMMA WholeLine ==
  ASSUME NEW m, Size(m) <= ReadLimit
  PROVE  Received(<<m>>) = m /\ Remaining(<<m>>) = << >>
BY DEF Received, Remaining
-----------------------------------------------------------------------------
(* The types are kept, one group of operations after the other *)

LEMMA EndsAre == "sender" \in Ends /\ "receiver" \in Ends
BY DEF Ends

LEMMA TypeInit == Init => TypeInv
<1> SUFFICES ASSUME Init PROVE TypeInv
  OBVIOUS
<1>1. ServerType
  BY DEF Init, ServerType
<1>2. StreamType
  BY DEF Init, StreamType
<1>3. PlaceType
  BY DEF Init, PlaceType, NetStates, ClientPlaces, WorkerPlaces
<1>4. SenderType
  BY OkErr, LengthsAssumption DEF Init, SenderType, Rooms
<1>5. ReceiverType
  <2>1. Ok \in Texts
    BY OkErr
  <2>2. << >> \in Seq(Bodies) /\ 0 \in Nat
    OBVIOUS
  <2> QED BY <2>1, <2>2 DEF Init, ReceiverType
<1>6. QueueType
  BY DEF Init, QueueType
<1> QED BY <1>1, <1>2, <1>3, <1>4, <1>5, <1>6 DEF TypeInv

LEMMA ClientMoves ==
  ASSUME PlaceType, NEW e \in Ends, NEW p \in ClientPlaces, ClientGoto(e, p)
  PROVE  client' \in [Ends -> ClientPlaces]
BY DEF PlaceType, ClientGoto

LEMMA WorkerMoves ==
  ASSUME PlaceType, NEW e \in Ends, NEW p \in WorkerPlaces, WorkerGoto(e, p)
  PROVE  worker' \in [Ends -> WorkerPlaces]
BY DEF PlaceType, WorkerGoto

LEMMA ExitMoves ==
  ASSUME PlaceType, NEW e \in Ends, NEW unread, ClientExits(e, unread)
  PROVE  client' \in [Ends -> ClientPlaces] /\ net' \in [Ends -> NetStates]
<1>1. "exited" \in ClientPlaces
  BY DEF ClientPlaces
<1>2. client' \in [Ends -> ClientPlaces]
  BY <1>1, ClientMoves DEF ClientExits
<1>3. net' \in [Ends -> NetStates]
  BY DEF PlaceType, ClientExits, NetStates
<1> QED BY <1>2, <1>3

LEMMA SendMoves ==
  ASSUME StreamType, NEW e \in Ends, NEW m \in Texts, ClientSends(e, m)
  PROVE  up' \in [Ends -> Seq(Texts)]
<1>1. Written(up[e], m) \in Seq(Texts)
  BY WrittenType DEF StreamType
<1> QED BY <1>1 DEF StreamType, ClientSends

LEMMA ReceiveMoves ==
  ASSUME StreamType, NEW e \in Ends, ClientReceives(e)
  PROVE  /\ down' \in [Ends -> Seq(Texts)]
         /\ down[e] # << >> /\ Received(down[e]) \in Texts
<1>1. down[e] \in Seq(Texts) /\ down[e] # << >>
  BY DEF StreamType, ClientReceives, Readable
<1>2. Received(down[e]) \in Texts /\ Remaining(down[e]) \in Seq(Texts)
  BY <1>1, ReceivedType
<1> QED BY <1>1, <1>2 DEF StreamType, ClientReceives

LEMMA WorkerSendMoves ==
  ASSUME StreamType, PlaceType, NEW e \in Ends, NEW m \in Texts, WorkerSends(e, m)
  PROVE  down' \in [Ends -> Seq(Texts)] /\ net' \in [Ends -> NetStates]
<1>1. Written(down[e], m) \in Seq(Texts)
  BY WrittenType DEF StreamType
<1>2. CASE net[e] = "open"
  BY <1>1, <1>2 DEF StreamType, PlaceType, WorkerSends
<1>3. CASE net[e] # "open"
  BY <1>3 DEF StreamType, PlaceType, WorkerSends, NetStates
<1> QED BY <1>2, <1>3

LEMMA IncomingType ==
  ASSUME StreamType, NEW e \in Ends
  PROVE  Incoming(e) \in Texts
<1>1. up[e] \in Seq(Texts)
  BY DEF StreamType
<1> QED BY <1>1, EofType, ReceivedType DEF Incoming

LEMMA WorkerReceiveMoves ==
  ASSUME StreamType, NEW e \in Ends, WorkerReceives(e)
  PROVE  up' \in [Ends -> Seq(Texts)]
<1>1. up[e] \in Seq(Texts)
  BY DEF StreamType
<1>2. (IF up[e] = << >> THEN up[e] ELSE Remaining(up[e])) \in Seq(Texts)
  BY <1>1, ReceivedType
<1> QED BY <1>2 DEF StreamType, WorkerReceives

LEMMA TypedType ==
  ASSUME requests \in 0..MaxRequests, requests < MaxRequests, NEW m \in Typed
  PROVE  /\ m \in Texts /\ m.tag \in {"join", "leave", "quit", "sendall"} /\ m.nl
         /\ m.tag # "sendall" => m.len <= 8
         /\ m.tag = "sendall" =>
              \E len \in DataLengths : m.len = len /\ m = Message("sendall", len, requests + 1)
<1>1. /\ "join" \in Tags /\ "leave" \in Tags /\ "quit" \in Tags /\ "sendall" \in Tags
      /\ 4 \in Nat /\ Short \in Nat /\ Short = 8
  BY TagsAre DEF Tags, Short
<1>2. CASE m \in {Message("join", Short, n) : n \in RoomNames}
  <2>1. PICK n \in RoomNames : m = [tag |-> "join", len |-> Short, body |-> n, nl |-> TRUE]
    BY <1>2 DEF Message
  <2>2. n \in Bodies
    BY DEF Bodies
  <2>3. m \in Texts
    BY <1>1, <2>1, <2>2, TextMade
  <2>4. m.tag = "join" /\ m.nl /\ m.len = 8
    BY <1>1, <2>1
  <2> QED BY <2>3, <2>4
<1>3. CASE m \in {Message("leave", 4, NoBody), Message("quit", 4, NoBody)}
  <2>1. \/ m = [tag |-> "leave", len |-> 4, body |-> NoBody, nl |-> TRUE]
        \/ m = [tag |-> "quit", len |-> 4, body |-> NoBody, nl |-> TRUE]
    BY <1>3 DEF Message
  <2>2. m \in Texts
    BY <1>1, <2>1, NoBodyType, TextMade
  <2>3. m.tag \in {"leave", "quit"} /\ m.nl /\ m.len = 4
    BY <2>1
  <2> QED BY <2>2, <2>3
<1>4. CASE m \in {Message("sendall", len, requests + 1) : len \in DataLengths}
  <2>1. PICK len \in DataLengths : m = Message("sendall", len, requests + 1)
    BY <1>4
  <2>2. m = [tag |-> "sendall", len |-> len, body |-> requests + 1, nl |-> TRUE]
    BY <2>1 DEF Message
  <2>3. requests + 1 \in Bodies /\ len \in Nat
    BY LengthsAssumption DEF Bodies
  <2>4. m \in Texts
    BY <1>1, <2>2, <2>3, TextMade
  <2> QED BY <2>1, <2>2, <2>4
<1> QED BY <1>2, <1>3, <1>4 DEF Typed

LEMMA TypeSenderClient ==
  ASSUME TypeInv, SenderClient, UNCHANGED server
  PROVE  TypeInv'
<1> USE EndsAre
<1>1. ServerType'
  BY DEF TypeInv, ServerType, server
<1>2. CASE SenderLogin
  <2>1. ClientSends("sender", LoginMessage) /\ ClientGoto("sender", "loginReply")
    BY <1>2 DEF SenderLogin, LoginMessage
  <2>2. UNCHANGED <<down, net, worker, senderVars, receiverVars, mqueue, sent>>
    BY <1>2 DEF SenderLogin
  <2>3. "loginReply" \in ClientPlaces
    BY DEF ClientPlaces
  <2>4. up' \in [Ends -> Seq(Texts)]
    BY <2>1, SendMoves, LoginFits DEF TypeInv
  <2>5. client' \in [Ends -> ClientPlaces]
    BY <2>1, <2>3, ClientMoves DEF TypeInv
  <2> QED BY <1>1, <2>2, <2>4, <2>5
          DEF TypeInv, StreamType, PlaceType, SenderType, ReceiverType, QueueType,
              senderVars, receiverVars
<1>3. CASE SenderLoggedIn
  <2>1. ClientReceives("sender") /\ ClientGoto("sender", "input")
    BY <1>3 DEF SenderLoggedIn
  <2>2. UNCHANGED <<up, net, worker, senderVars, receiverVars, mqueue, sent>>
    BY <1>3 DEF SenderLoggedIn
  <2>3. "input" \in ClientPlaces
    BY DEF ClientPlaces
  <2>4. down' \in [Ends -> Seq(Texts)]
    BY <2>1, ReceiveMoves DEF TypeInv
  <2>5. client' \in [Ends -> ClientPlaces]
    BY <2>1, <2>3, ClientMoves DEF TypeInv
  <2> QED BY <1>1, <2>2, <2>4, <2>5
          DEF TypeInv, StreamType, PlaceType, SenderType, ReceiverType, QueueType,
              senderVars, receiverVars
<1>4. CASE SenderRequest
  <2>1. PICK m \in Typed :
          /\ asked' = m
          /\ IF checkStyle(m)
             THEN ClientSends("sender", m) /\ ClientGoto("sender", "reply") /\ UNCHANGED net
             ELSE ClientExits("sender", down["sender"]) /\ UNCHANGED up
    BY <1>4 DEF SenderRequest
  <2>2. /\ UNCHANGED <<down, worker, answer, rm, told, acked, receiverVars, mqueue, sent>>
        /\ requests < MaxRequests /\ requests' = requests + 1
    BY <1>4 DEF SenderRequest
  <2>3. m \in Texts
    BY <2>2, TypedType DEF TypeInv, SenderType
  <2>4. requests' \in 0..MaxRequests
    BY <2>2, LengthsAssumption DEF TypeInv, SenderType
  <2>5. /\ up' \in [Ends -> Seq(Texts)] /\ client' \in [Ends -> ClientPlaces]
        /\ net' \in [Ends -> NetStates]
    <3>1. CASE checkStyle(m)
      <4>1. "reply" \in ClientPlaces
        BY DEF ClientPlaces
      <4> QED BY <2>1, <2>3, <3>1, <4>1, SendMoves, ClientMoves DEF TypeInv, PlaceType
    <3>2. CASE ~checkStyle(m)
      BY <2>1, <3>2, ExitMoves DEF TypeInv, StreamType
    <3> QED BY <3>1, <3>2
  <2> QED BY <1>1, <2>1, <2>2, <2>3, <2>4, <2>5
          DEF TypeInv, StreamType, PlaceType, SenderType, ReceiverType, QueueType,
              receiverVars
<1>5. CASE SenderReply
  <2> DEFINE ok == Received(down["sender"]).tag = "ok"
  <2>1. /\ ClientReceives("sender")
        /\ told' = CASE ok /\ asked.tag = "join"  -> asked.body
                     [] ok /\ asked.tag = "leave" -> NoRoom
                     [] OTHER                     -> told
        /\ acked' = IF ok /\ asked.tag = "sendall"
                    THEN Append(acked, <<told, asked.body>>) ELSE acked
    BY <1>5 DEF SenderReply
  <2>2. UNCHANGED <<up, worker, answer, rm, requests, asked, receiverVars, mqueue, sent>>
    BY <1>5 DEF SenderReply
  <2>3. down' \in [Ends -> Seq(Texts)]
    BY <2>1, ReceiveMoves DEF TypeInv
  <2>4. client' \in [Ends -> ClientPlaces] /\ net' \in [Ends -> NetStates]
    <3>1. CASE ClientExits("sender", Remaining(down["sender"]))
      BY <3>1, ExitMoves DEF TypeInv
    <3>2. CASE ClientGoto("sender", "input") /\ UNCHANGED net
      <4>1. "input" \in ClientPlaces
        BY DEF ClientPlaces
      <4> QED BY <3>2, <4>1, ClientMoves DEF TypeInv, PlaceType
    <3> QED BY <1>5, <3>1, <3>2 DEF SenderReply
  <2> HIDE DEF ok
  <2>5. asked.body \in Bodies /\ (asked.tag = "join" => asked.body \in RoomNames)
    BY TextIs DEF TypeInv, SenderType
  <2>6. told' \in Rooms
    BY <2>1, <2>5 DEF TypeInv, SenderType, Rooms
  <2>7. acked' \in Seq(Rooms \X Bodies)
    <3>1. <<told, asked.body>> \in Rooms \X Bodies
      BY <2>5 DEF TypeInv, SenderType
    <3> QED BY <2>1, <3>1 DEF TypeInv, SenderType
  <2> QED BY <1>1, <2>2, <2>3, <2>4, <2>6, <2>7
          DEF TypeInv, StreamType, PlaceType, SenderType, ReceiverType, QueueType,
              receiverVars
<1> QED BY <1>2, <1>3, <1>4, <1>5 DEF SenderClient

LEMMA TypeHandlers ==
  ASSUME TypeInv, UNCHANGED server,
         HandleJoin \/ HandleLeave \/ HandleQuit \/ HandleText
  PROVE  TypeInv'
<1> USE EndsAre
<1>1. ServerType'
  BY DEF TypeInv, ServerType, server
<1> DEFINE m == Incoming("sender")
<1>2. /\ WorkerReceives("sender")
      /\ UNCHANGED <<down, net, client, requests, asked, told, acked, receiverVars>>
  BY DEF HandleJoin, HandleLeave, HandleQuit, HandleText, Handles
<1>3. up' \in [Ends -> Seq(Texts)] /\ m \in Texts
  BY <1>2, WorkerReceiveMoves, IncomingType DEF TypeInv
<1>4. answer' \in {Ok, Err}
  BY DEF HandleJoin, HandleLeave, HandleQuit, HandleText
<1>5. answer' \in Texts
  BY <1>4, OkErr
<1>6. worker' \in [Ends -> WorkerPlaces]
  <2>1. "reply" \in WorkerPlaces /\ "lastReply" \in WorkerPlaces
    BY DEF WorkerPlaces
  <2>2. WorkerGoto("sender", "reply") \/ WorkerGoto("sender", "lastReply")
    BY DEF HandleJoin, HandleLeave, HandleQuit, HandleText
  <2> QED BY <2>1, <2>2, WorkerMoves DEF TypeInv
<1> HIDE DEF m
<1>7. rm' \in Rooms
  <2>1. CASE HandleJoin
    <3>1. rm' = m.body /\ m.tag = "join"
      BY <2>1 DEF HandleJoin, Handles, m
    <3> QED BY <1>3, <3>1, TextIs DEF Rooms
  <2>2. CASE ~HandleJoin
    <3>1. rm' = NoRoom \/ rm' = rm
      BY <2>2 DEF HandleLeave, HandleQuit, HandleText
    <3> QED BY <3>1 DEF Rooms, TypeInv, SenderType
  <2> QED BY <2>1, <2>2
<1>8. QueueType'
  <2>1. CASE mqueue' = mqueue /\ sent' = sent
    BY <2>1 DEF QueueType, TypeInv
  <2>2. CASE rm # NoRoom /\ Broadcast(m)
    <3> DEFINE d == [m EXCEPT !.tag = "delivery", !.len = NamesLength + m.len]
    <3>1. /\ sent' = Append(sent, <<rm, m.body>>)
          /\ mqueue' = Append(mqueue, d) \/ mqueue' = mqueue
      BY <2>2 DEF Broadcast
    <3>2. "delivery" \in Tags /\ NamesLength + m.len \in Nat
      BY <1>3, TagsAre, TextIs, LengthsAssumption DEF Tags
    <3>3. d \in Texts
      BY <1>3, <3>2, TextLeft
    <3>4. <<rm, m.body>> \in RoomNames \X Bodies
      BY <1>3, <2>2, TextIs DEF TypeInv, SenderType, Rooms
    <3> HIDE DEF d
    <3>5. mqueue' \in Seq(Texts)
      <4>1. mqueue \in Seq(Texts)
        BY DEF QueueType, TypeInv
      <4> QED BY <3>1, <3>3, <4>1
    <3>6. sent' \in Seq(RoomNames \X Bodies)
      <4>1. sent \in Seq(RoomNames \X Bodies)
        BY DEF QueueType, TypeInv
      <4> QED BY <3>1, <3>4, <4>1
    <3> QED BY <3>5, <3>6 DEF QueueType
  <2>3. \/ mqueue' = mqueue /\ sent' = sent
        \/ rm # NoRoom /\ Broadcast(m)
    BY DEF HandleJoin, HandleLeave, HandleQuit, HandleText, m
  <2> QED BY <2>1, <2>2, <2>3
<1> QED BY <1>1, <1>2, <1>3, <1>5, <1>6, <1>7, <1>8
        DEF TypeInv, StreamType, PlaceType, SenderType, ReceiverType, receiverVars

LEMMA TypeSenderWorker ==
  ASSUME TypeInv, UNCHANGED server,
         SenderWorkerLogin \/ SenderWorkerReply \/ LastReply("sender", answer)
           \/ SenderWorkerFails
  PROVE  TypeInv'
<1> USE EndsAre
<1>1. ServerType'
  BY DEF TypeInv, ServerType, server
<1>2. worker' \in [Ends -> WorkerPlaces]
  <2>1. {"reply", "exited", "receive", "lastReply"} \subseteq WorkerPlaces
    BY DEF WorkerPlaces
  <2>2. \E p \in {"reply", "exited", "receive", "lastReply"} : WorkerGoto("sender", p)
    BY DEF SenderWorkerLogin, SenderWorkerReply, LastReply, SenderWorkerFails
  <2> QED BY <2>1, <2>2, WorkerMoves DEF TypeInv
<1>3. UNCHANGED <<client, rm, requests, asked, told, acked, receiverVars, mqueue, sent>>
  BY DEF SenderWorkerLogin, SenderWorkerReply, LastReply, SenderWorkerFails, senderVars
<1>4. answer' \in Texts
  <2>1. answer' \in {answer, Ok, Err}
    BY DEF SenderWorkerLogin, SenderWorkerReply, LastReply, SenderWorkerFails, senderVars
  <2> QED BY <2>1, OkErr DEF TypeInv, SenderType
<1>5. /\ StreamType' /\ net' \in [Ends -> NetStates]
  <2>1. CASE SenderWorkerLogin
    <3>1. WorkerReceives("sender") /\ UNCHANGED <<down, net>>
      BY <2>1 DEF SenderWorkerLogin
    <3> QED BY <3>1, WorkerReceiveMoves DEF TypeInv, StreamType, PlaceType
  <2>2. CASE WorkerSends("sender", answer) /\ UNCHANGED up
    BY <2>2, WorkerSendMoves DEF TypeInv, StreamType, PlaceType, SenderType
  <2>3. CASE UNCHANGED <<up, down, net>>
    BY <2>3 DEF TypeInv, StreamType, PlaceType
  <2> QED BY <2>1, <2>2, <2>3
          DEF SenderWorkerReply, LastReply, SenderWorkerFails, streams
<1> QED BY <1>1, <1>2, <1>3, <1>4, <1>5
        DEF TypeInv, PlaceType, SenderType, ReceiverType, QueueType, receiverVars

LEMMA TypeReceiverClient ==
  ASSUME TypeInv, ReceiverClient, UNCHANGED server
  PROVE  TypeInv'
<1> USE EndsAre
<1>1. ServerType'
  BY DEF TypeInv, ServerType, server
<1>2. {"loginReply", "join", "joinReply", "listen"} \subseteq ClientPlaces
  BY DEF ClientPlaces
<1>3. CASE ReceiverAsks
  <2> DEFINE m == IF client["receiver"] = "login" THEN Message("rlogin", Short, NoBody)
                  ELSE Message("join", Short, home)
  <2>1. /\ ClientSends("receiver", m)
        /\ ClientGoto("receiver",
             IF client["receiver"] = "login" THEN "loginReply" ELSE "joinReply")
        /\ UNCHANGED <<down, net, worker, senderVars, receiverVars, mqueue, sent>>
    BY <1>3 DEF ReceiverAsks
  <2>2. m \in Texts
    <3>1. "rlogin" \in Tags /\ "join" \in Tags /\ Short \in Nat
      BY TagsAre DEF Tags, Short
    <3>2. home \in Bodies /\ home \in RoomNames
      BY DEF TypeInv, ReceiverType, Bodies
    <3>3. Message("rlogin", Short, NoBody) \in Texts
      BY <3>1, NoBodyType, TextMade DEF Message
    <3>4. Message("join", Short, home) \in Texts
      BY <3>1, <3>2, TextMade DEF Message
    <3> QED BY <3>3, <3>4
  <2> HIDE DEF m
  <2>3. up' \in [Ends -> Seq(Texts)]
    BY <2>1, <2>2, SendMoves DEF TypeInv
  <2>4. client' \in [Ends -> ClientPlaces]
    BY <1>2, <2>1, ClientMoves DEF TypeInv
  <2> QED BY <1>1, <2>1, <2>3, <2>4
          DEF TypeInv, StreamType, PlaceType, SenderType, ReceiverType, QueueType,
              senderVars, receiverVars
<1>4. CASE ReceiverAnswered
  <2>1. /\ ClientReceives("receiver")
        /\ ClientGoto("receiver",
             IF client["receiver"] = "loginReply" THEN "join" ELSE "listen")
        /\ UNCHANGED <<up, net, worker, senderVars, receiverVars, mqueue, sent>>
    BY <1>4 DEF ReceiverAnswered
  <2>2. down' \in [Ends -> Seq(Texts)]
    BY <2>1, ReceiveMoves DEF TypeInv
  <2>3. client' \in [Ends -> ClientPlaces]
    BY <1>2, <2>1, ClientMoves DEF TypeInv
  <2> QED BY <1>1, <2>1, <2>2, <2>3
          DEF TypeInv, StreamType, PlaceType, SenderType, ReceiverType, QueueType,
              senderVars, receiverVars
<1>5. CASE ReceiverPrints
  <2> DEFINE m == Received(down["receiver"])
  <2>1. /\ ClientReceives("receiver")
        /\ IF checkStyle(m)
           THEN printed' = Append(printed, m.body) /\ UNCHANGED <<client, net>>
           ELSE ClientExits("receiver", Remaining(down["receiver"])) /\ UNCHANGED printed
        /\ UNCHANGED <<up, worker, senderVars, home, member, out, start, mqueue, sent>>
    BY <1>5 DEF ReceiverPrints
  <2>2. down' \in [Ends -> Seq(Texts)] /\ m \in Texts
    BY <2>1, ReceiveMoves DEF TypeInv
  <2> HIDE DEF m
  <2>3. /\ client' \in [Ends -> ClientPlaces] /\ net' \in [Ends -> NetStates]
    BY <2>1, ExitMoves DEF TypeInv, PlaceType
  <2>4. printed' \in Seq(Bodies)
    <3>1. printed \in Seq(Bodies) /\ m.body \in Bodies
      BY <2>2, TextIs DEF TypeInv, ReceiverType
    <3> QED BY <2>1, <3>1
  <2> QED BY <1>1, <2>1, <2>2, <2>3, <2>4
          DEF TypeInv, StreamType, PlaceType, SenderType, ReceiverType, QueueType,
              senderVars
<1> QED BY <1>3, <1>4, <1>5 DEF ReceiverClient

LEMMA TypeReceiverWorker ==
  ASSUME TypeInv, ReceiverWorker, UNCHANGED server
  PROVE  TypeInv'
<1> USE EndsAre
<1>1. ServerType'
  BY DEF TypeInv, ServerType, server
<1>2. worker' \in [Ends -> WorkerPlaces]
  <2> DEFINE places == {"loginReply", "joinReply", "lastReply", "exited", "join", "add"}
                         \cup {"dequeue", "send"}
  <2>1. places \subseteq WorkerPlaces
    BY DEF WorkerPlaces
  <2>2. \E p \in places : WorkerGoto("receiver", p)
    BY DEF ReceiverWorker, ReceiverWorkerReads, ReceiverWorkerAnswers, AddMember, Dequeue,
           Deliver, ReceiverWorkerFails, LastReply
  <2> QED BY <2>1, <2>2, WorkerMoves DEF TypeInv
<1>3. UNCHANGED <<client, senderVars, home, printed, sent>>
  BY DEF ReceiverWorker, ReceiverWorkerReads, ReceiverWorkerAnswers, AddMember, Dequeue,
         Deliver, ReceiverWorkerFails, LastReply, receiverVars
<1>4. /\ member' \in BOOLEAN /\ start' \in Nat /\ out' \in Texts
      /\ mqueue' \in Seq(Texts)
  <2>1. CASE AddMember
    <3>1. Len(sent) \in Nat
      BY DEF TypeInv, QueueType
    <3> QED BY <2>1, <3>1 DEF AddMember, TypeInv, ReceiverType, QueueType
  <2>2. CASE Dequeue
    <3>1. mqueue \in Seq(Texts) /\ mqueue # << >>
      BY <2>2 DEF TypeInv, QueueType, Dequeue
    <3>2. Head(mqueue) \in Texts /\ Tail(mqueue) \in Seq(Texts)
      BY <3>1
    <3> QED BY <2>2, <3>2 DEF Dequeue, TypeInv, ReceiverType
  <2>3. CASE UNCHANGED <<receiverVars, mqueue>>
    BY <2>3 DEF receiverVars, TypeInv, ReceiverType, QueueType
  <2> QED BY <2>1, <2>2, <2>3
          DEF ReceiverWorker, ReceiverWorkerReads, ReceiverWorkerAnswers, Deliver,
              ReceiverWorkerFails, LastReply
<1>5. StreamType' /\ net' \in [Ends -> NetStates]
  <2>1. CASE ReceiverWorkerReads
    <3>1. WorkerReceives("receiver") /\ UNCHANGED <<down, net>>
      BY <2>1 DEF ReceiverWorkerReads
    <3> QED BY <3>1, WorkerReceiveMoves DEF TypeInv, StreamType, PlaceType
  <2>2. CASE \E m \in {Ok, Err, out} : WorkerSends("receiver", m) /\ UNCHANGED up
    <3>1. PICK m \in {Ok, Err, out} : WorkerSends("receiver", m) /\ UNCHANGED up
      BY <2>2
    <3>2. m \in Texts
      BY OkErr DEF TypeInv, ReceiverType
    <3> QED BY <3>1, <3>2, WorkerSendMoves DEF TypeInv, StreamType, PlaceType
  <2>3. CASE UNCHANGED <<up, down, net>>
    BY <2>3 DEF TypeInv, StreamType, PlaceType
  <2> QED BY <2>1, <2>2, <2>3
          DEF ReceiverWorker, ReceiverWorkerAnswers, AddMember, Dequeue, Deliver,
              ReceiverWorkerFails, LastReply, streams
<1> QED BY <1>1, <1>2, <1>3, <1>4, <1>5
        DEF TypeInv, PlaceType, SenderType, ReceiverType, QueueType, senderVars

LEMMA TypeEnds ==
  ASSUME TypeInv, NEW e \in Ends, UNCHANGED server,
         ResetArrives(e) \/ ClientKilled(e) \/ ClientFails(e)
  PROVE  TypeInv'
<1>1. ServerType'
  BY DEF TypeInv, ServerType, server
<1>2. UNCHANGED <<streams, worker, senderVars, receiverVars, mqueue, sent>>
  BY DEF ResetArrives, ClientKilled, ClientFails
<1>3. client' \in [Ends -> ClientPlaces] /\ net' \in [Ends -> NetStates]
  <2>1. CASE ResetArrives(e)
    BY <2>1 DEF ResetArrives, TypeInv, PlaceType, NetStates
  <2>2. CASE ClientExits(e, down[e])
    BY <2>2, ExitMoves DEF TypeInv
  <2> QED BY <2>1, <2>2 DEF ClientKilled, ClientFails
<1> QED BY <1>1, <1>2, <1>3
        DEF TypeInv, StreamType, PlaceType, SenderType, ReceiverType, QueueType,
            streams, senderVars, receiverVars

LEMMA TypeMainThread ==
  ASSUME TypeInv, handle_client_requests
  PROVE  TypeInv'
<1>1. /\ UNCHANGED <<limit, streams, net, client, senderVars, receiverVars, mqueue, sent>>
      /\ main' \in {main, "left", "exited"}
  BY DEF handle_client_requests, AcceptFails, Accept, ThreadFails, server
<1>2. ServerType'
  BY <1>1 DEF TypeInv, ServerType
<1>3. worker' \in [Ends -> WorkerPlaces]
  <2>1. {"login", "refused", "exited"} \subseteq WorkerPlaces
    BY DEF WorkerPlaces
  <2>2. CASE AcceptFails
    BY <2>1, <2>2 DEF AcceptFails
  <2>3. CASE \E e \in Ends : Accept(e) \/ ThreadFails(e)
    BY <2>1, <2>3, WorkerMoves DEF Accept, ThreadFails, TypeInv
  <2> QED BY <2>2, <2>3 DEF handle_client_requests
<1> QED BY <1>1, <1>2, <1>3
        DEF TypeInv, StreamType, PlaceType, SenderType, ReceiverType, QueueType,
            streams, senderVars, receiverVars

LEMMA TypeDestroyed ==
  ASSUME TypeInv, LastThreadEnds \/ \E e \in Ends : UseDestroyed(e)
  PROVE  TypeInv'
<1>1. /\ UNCHANGED <<limit, down, net, client, senderVars, receiverVars, mqueue, sent>>
      /\ main' \in {main, "exited"}
  BY DEF LastThreadEnds, UseDestroyed, streams
<1>2. ServerType'
  BY <1>1 DEF TypeInv, ServerType
<1>3. worker' \in [Ends -> WorkerPlaces]
  <2>1. {"stuck", "exited"} \subseteq WorkerPlaces
    BY DEF WorkerPlaces
  <2>2. CASE worker' = [f \in Ends |-> "exited"]
    BY <2>1, <2>2
  <2>3. CASE \E e \in Ends : WorkerGoto(e, "stuck")
    BY <2>1, <2>3, WorkerMoves DEF TypeInv
  <2> QED BY <2>2, <2>3 DEF LastThreadEnds, UseDestroyed
<1>4. up' \in [Ends -> Seq(Texts)]
  <2>1. up \in [Ends -> Seq(Texts)]
    BY DEF TypeInv, StreamType
  <2>2. CASE UNCHANGED up
    BY <2>1, <2>2
  <2>3. CASE \E e \in Ends : up[e] # << >> /\ up' = [up EXCEPT ![e] = Remaining(up[e])]
    <3>1. PICK e \in Ends : up[e] # << >> /\ up' = [up EXCEPT ![e] = Remaining(up[e])]
      BY <2>3
    <3>2. Remaining(up[e]) \in Seq(Texts)
      BY <2>1, <3>1, ReceivedType
    <3> QED BY <2>1, <3>1, <3>2
  <2>4. CASE \E e \in Ends : UseDestroyed(e)
    <3>1. PICK e \in Ends : UseDestroyed(e)
      BY <2>4
    <3>2. CASE worker[e] = "add" \/ up[e] = << >>
      BY <2>1, <2>2, <3>1, <3>2 DEF UseDestroyed
    <3>3. CASE ~(worker[e] = "add" \/ up[e] = << >>)
      BY <2>1, <2>3, <3>1, <3>3 DEF UseDestroyed
    <3> QED BY <3>2, <3>3
  <2> QED BY <2>2, <2>4 DEF LastThreadEnds, streams
<1> QED BY <1>1, <1>2, <1>3, <1>4
        DEF TypeInv, StreamType, PlaceType, SenderType, ReceiverType, QueueType,
            senderVars, receiverVars

LEMMA TypeStep == TypeInv /\ [Next]_vars => TypeInv'
<1> SUFFICES ASSUME TypeInv, [Next]_vars PROVE TypeInv'
  OBVIOUS
<1>1. CASE handle_client_requests
  BY <1>1, TypeMainThread
<1>2. CASE SenderClient /\ UNCHANGED server
  BY <1>2, TypeSenderClient
<1>3. CASE SenderWorker /\ UNCHANGED server
  BY <1>3, TypeHandlers, TypeSenderWorker DEF SenderWorker
<1>4. CASE ReceiverClient /\ UNCHANGED server
  BY <1>4, TypeReceiverClient
<1>5. CASE ReceiverWorker /\ UNCHANGED server
  BY <1>5, TypeReceiverWorker
<1>6. CASE /\ \E e \in Ends : ResetArrives(e) \/ ClientKilled(e) \/ ClientFails(e)
           /\ UNCHANGED server
  BY <1>6, TypeEnds
<1>7. CASE LastThreadEnds \/ \E e \in Ends : UseDestroyed(e)
  BY <1>7, TypeDestroyed
<1>8. CASE UNCHANGED vars
  BY <1>8 DEF vars, server, chatVars, streams, senderVars, receiverVars, TypeInv,
              ServerType, StreamType, PlaceType, SenderType, ReceiverType, QueueType
<1> QED BY <1>1, <1>2, <1>3, <1>4, <1>5, <1>6, <1>7, <1>8 DEF Next

LEMMA TypeInvariant == Spec => []TypeInv
BY TypeInit, TypeStep, PTL DEF Spec

(* For any rooms, lines and limits the state of the two clients, their      *)
(* connections and workers has its types: in particular a room is only ever *)
(* joined by name, and nothing is broadcast outside a room (server.cpp:170- *)
(* 256), whether the rooms still exist or not.                              *)
THEOREM SessionTypeCorrect == Spec => []TypeOK
<1>1. Texts \subseteq Messages
  BY DEF Texts
<1>2. Seq(Texts) \subseteq Seq(Messages)
  BY <1>1
<1>3. TypeInv => TypeOK
  <2> SUFFICES ASSUME TypeInv PROVE TypeOK
    OBVIOUS
  <2>1. up \in [Ends -> Seq(Messages)] /\ down \in [Ends -> Seq(Messages)]
    BY <1>2 DEF TypeInv, StreamType
  <2>2. answer \in Messages /\ out \in Messages /\ asked \in Messages /\ mqueue \in Seq(Messages)
    BY <1>1, <1>2 DEF TypeInv, SenderType, ReceiverType, QueueType
  <2> QED BY <2>1, <2>2
          DEF TypeInv, ServerType, PlaceType, SenderType, ReceiverType, QueueType, TypeOK,
              Rooms, NetStates, ClientPlaces, WorkerPlaces
<1> QED BY <1>3, TypeInvariant, PTL
-----------------------------------------------------------------------------
(* What the operations do to the sender's side *)

View == <<up["sender"], down["sender"], net["sender"], client["sender"], worker["sender"],
          senderVars, sent, main>>

LEMMA ViewKept == Conversation /\ UNCHANGED View => Conversation'
BY DEF View, senderVars, Conversation, AtLogin, AtLoginReply, AtInput, AtReply, AtExit,
       Quiet, Settled, Served, Handled, Request

LEMMA AppendPrefix ==
  ASSUME NEW S, NEW s \in Seq(S), NEW p
  PROVE  IsPrefix(s, Append(s, p)) /\ Len(Append(s, p)) = Len(s) + 1
BY DEF IsPrefix

LEMMA SenderGoes ==
  ASSUME TypeInv, NEW p, ClientGoto("sender", p)
  PROVE  client'["sender"] = p
BY EndsAre DEF TypeInv, PlaceType, ClientGoto

LEMMA SenderWorkerGoes ==
  ASSUME TypeInv, NEW p, WorkerGoto("sender", p)
  PROVE  worker'["sender"] = p
BY EndsAre DEF TypeInv, PlaceType, WorkerGoto

LEMMA SenderSends ==
  ASSUME TypeInv, up["sender"] = << >>, NEW m \in Texts, ClientSends("sender", m)
  PROVE  up'["sender"] = <<m>>
<1>1. Written(up["sender"], m) = <<m>>
  <2>1. << >> \in Seq(Texts)
    OBVIOUS
  <2> QED BY <2>1, WrittenType
<1> QED BY <1>1, EndsAre DEF TypeInv, StreamType, ClientSends

LEMMA SenderReceives ==
  ASSUME TypeInv, NEW m, down["sender"] = <<m>>, Size(m) <= ReadLimit,
         ClientReceives("sender")
  PROVE  down'["sender"] = << >> /\ Received(down["sender"]) = m
BY WholeLine, EndsAre DEF TypeInv, StreamType, ClientReceives

LEMMA SenderWorkerSends ==
  ASSUME TypeInv, net["sender"] = "open", down["sender"] = << >>, NEW m \in Texts,
         WorkerSends("sender", m)
  PROVE  down'["sender"] = <<m>> /\ net' = net
<1>1. Written(down["sender"], m) = <<m>>
  <2>1. << >> \in Seq(Texts)
    OBVIOUS
  <2> QED BY <2>1, WrittenType
<1> QED BY <1>1, EndsAre DEF TypeInv, StreamType, WorkerSends

LEMMA SenderWorkerReceives ==
  ASSUME TypeInv, NEW m, up["sender"] = <<m>>, Size(m) <= ReadLimit,
         WorkerReceives("sender")
  PROVE  up'["sender"] = << >> /\ Incoming("sender") = m
<1>1. up["sender"] # << >>
  OBVIOUS
<1> QED BY <1>1, WholeLine, EndsAre DEF TypeInv, StreamType, WorkerReceives, Incoming

LEMMA SenderWorkerSeesEnd ==
  ASSUME TypeInv, up["sender"] = << >>, WorkerReceives("sender")
  PROVE  /\ up'["sender"] = << >> /\ Incoming("sender") = Eof(NoBody)
         /\ net["sender"] # "open"
BY EndsAre DEF TypeInv, StreamType, WorkerReceives, CanReceive, Readable, Incoming

LEMMA ConversationInit == Init => Conversation
<1> SUFFICES ASSUME Init PROVE Conversation
  OBVIOUS
<1>1. /\ client["sender"] = "login" /\ net["sender"] = "open" /\ worker["sender"] = "none"
      /\ up["sender"] = << >> /\ down["sender"] = << >> /\ told = rm /\ sent = acked
  BY EndsAre DEF Init
<1> QED BY <1>1 DEF Conversation, AtLogin, AtLoginReply, AtInput, AtReply, AtExit,
                    Quiet, Settled, Served, Unserved

LEMMA ConversationLogin ==
  ASSUME TypeInv, Conversation, SenderLogin \/ SenderLoggedIn, UNCHANGED server
  PROVE  Conversation'
<1> USE EndsAre
<1>1. CASE SenderLogin
  <2>1. /\ client["sender"] = "login" /\ ClientSends("sender", LoginMessage)
        /\ ClientGoto("sender", "loginReply")
        /\ UNCHANGED <<down, net, worker, senderVars, sent, main>>
    BY <1>1 DEF SenderLogin, LoginMessage, server
  <2>2. Quiet /\ Settled /\ Served /\ worker["sender"] \in Unserved /\ net["sender"] = "open"
    BY <2>1 DEF Conversation, AtLogin
  <2>3. client'["sender"] = "loginReply" /\ up'["sender"] = <<LoginMessage>>
    BY <2>1, <2>2, LoginFits, SenderGoes, SenderSends DEF Quiet
  <2>4. AtLoginReply'
    BY <2>1, <2>2, <2>3 DEF AtLoginReply, Settled, Served, Quiet, senderVars
  <2> QED BY <2>1, <2>2, <2>3, <2>4 DEF Conversation, AtLogin, AtInput, AtReply, AtExit
<1>2. CASE SenderLoggedIn
  <2>1. /\ client["sender"] = "loginReply" /\ ClientReceives("sender")
        /\ ClientGoto("sender", "input")
        /\ UNCHANGED <<up, net, worker, senderVars, sent, main>>
    BY <1>2 DEF SenderLoggedIn, server
  <2>2. down["sender"] # << >>
    BY <2>1 DEF ClientReceives, Readable
  <2>3. /\ up["sender"] = << >> /\ down["sender"] = <<Ok>> /\ Settled /\ Served
        /\ worker["sender"] \in {"receive", "exited"} /\ net["sender"] = "open"
    BY <2>1, <2>2 DEF Conversation, AtLoginReply, Quiet
  <2>4. client'["sender"] = "input" /\ down'["sender"] = << >>
    BY <2>1, <2>3, OkErr, SenderGoes, SenderReceives
  <2>5. AtInput'
    BY <2>1, <2>3, <2>4 DEF AtInput, Settled, Served, Quiet, senderVars
  <2> QED BY <2>1, <2>3, <2>4, <2>5 DEF Conversation, AtLogin, AtLoginReply, AtReply, AtExit
<1> QED BY <1>1, <1>2

LEMMA RequestFits ==
  ASSUME TypeInv, LinesFit, requests < MaxRequests, NEW m \in Typed, checkStyle(m)
  PROVE  Request(m)
<1>1. /\ m \in Texts /\ m.tag \in {"join", "leave", "quit", "sendall"} /\ m.nl
      /\ m.tag # "sendall" => m.len <= 8
      /\ m.tag = "sendall" =>
           \E len \in DataLengths : m.len = len /\ m = Message("sendall", len, requests + 1)
  BY TypedType DEF TypeInv, SenderType
<1>2. m.len \in Nat /\ m.len <= MAX_LEN
  BY <1>1, TextIs DEF checkStyle
<1>3. CASE m.tag = "sendall"
  <2>1. PICK len \in DataLengths : m.len = len /\ m = Message("sendall", len, requests + 1)
    BY <1>1, <1>3
  <2>2. ~(len > MAX_LEN)
    BY <1>2, <2>1, MaxLenAssumption
  <2>3. Size(Message("sendall", len, NoBody)) <= ReadLimit
    BY <2>2 DEF LinesFit
  <2>4. Size(Message("sendall", len, NoBody)) = Size(m)
    BY <2>1 DEF Size, Prefix, Message
  <2> QED BY <1>1, <2>3, <2>4 DEF Request
<1>4. CASE m.tag # "sendall"
  <2>1. TagLength["join"] = 4 /\ TagLength["leave"] = 5 /\ TagLength["quit"] = 4
    BY DEF TagLength
  <2>2. Prefix(m) \in {5, 6}
    BY <1>1, <1>4, <2>1, TagsAre DEF Prefix
  <2>3. Size(m) <= 14 /\ Size(m) \in Nat
    BY <1>1, <1>2, <1>4, <2>2 DEF Size
  <2> QED BY <1>1, <2>3, LimitType DEF Request
<1> QED BY <1>3, <1>4

LEMMA ConversationRequest ==
  ASSUME TypeInv, Conversation, LinesFit, SenderRequest, UNCHANGED server
  PROVE  Conversation'
<1> USE EndsAre
<1>1. PICK m \in Typed :
        /\ asked' = m
        /\ IF checkStyle(m)
           THEN ClientSends("sender", m) /\ ClientGoto("sender", "reply") /\ UNCHANGED net
           ELSE ClientExits("sender", down["sender"]) /\ UNCHANGED up
  BY DEF SenderRequest
<1>2. /\ client["sender"] = "input" /\ requests < MaxRequests
      /\ UNCHANGED <<down, worker, answer, rm, told, acked, sent, main>>
  BY DEF SenderRequest, server
<1>3. /\ up["sender"] = << >> /\ down["sender"] = << >> /\ Settled /\ Served
      /\ worker["sender"] \in {"receive", "exited"} /\ net["sender"] = "open"
  BY <1>2 DEF Conversation, AtInput, Quiet
<1>4. Settled' /\ Served'
  BY <1>2, <1>3 DEF Settled, Served
<1>5. m \in Texts
  BY <1>2, TypedType DEF TypeInv, SenderType
<1>6. CASE checkStyle(m)
  <2>1. Request(m)
    BY <1>2, <1>6, RequestFits
  <2>2. client'["sender"] = "reply" /\ up'["sender"] = <<m>> /\ net'["sender"] = "open"
    BY <1>1, <1>3, <1>5, <1>6, SenderGoes, SenderSends
  <2>3. AtReply'
    BY <1>1, <1>2, <1>3, <1>4, <2>1, <2>2 DEF AtReply, Request
  <2> QED BY <2>2, <2>3 DEF Conversation, AtLogin, AtLoginReply, AtInput, AtExit
<1>7. CASE ~checkStyle(m)
  <2>1. client'["sender"] = "exited" /\ up'["sender"] = << >>
    BY <1>1, <1>3, <1>7, SenderGoes DEF ClientExits
  <2> QED BY <1>4, <2>1
          DEF Conversation, AtLogin, AtLoginReply, AtInput, AtReply, AtExit, Settled
<1> QED BY <1>6, <1>7

LEMMA ConversationReply ==
  ASSUME TypeInv, Conversation, SenderReply, UNCHANGED server
  PROVE  Conversation'
<1> USE EndsAre
<1>1. /\ client["sender"] = "reply" /\ ClientReceives("sender")
      /\ UNCHANGED <<up, worker, answer, rm, asked, sent, main>>
  BY DEF SenderReply, server
<1>2. down["sender"] # << >>
  BY <1>1 DEF ClientReceives, Readable
<1>3. /\ Request(asked) /\ (asked.tag # "quit" => Served) /\ net["sender"] = "open"
      /\ up["sender"] = << >> /\ down["sender"] = <<answer>> /\ Handled
      /\ worker["sender"] \in {IF asked.tag = "quit" THEN "exited" ELSE "receive", "exited"}
  BY <1>1, <1>2 DEF Conversation, AtReply, Quiet
<1>4. answer \in {Ok, Err} /\ Size(answer) <= ReadLimit
      /\ (answer.tag = "ok" <=> answer = Ok)
  BY <1>3, OkErr DEF Handled
<1>5. down'["sender"] = << >> /\ Received(down["sender"]) = answer
  BY <1>1, <1>3, <1>4, SenderReceives
<1>6. told' = rm
  BY <1>3, <1>4, <1>5 DEF SenderReply, Handled
<1>7. acked' = sent
  BY <1>3, <1>4, <1>5 DEF SenderReply, Handled
<1>8. CASE asked.tag = "quit"
  <2>1. client'["sender"] = "exited" /\ up'["sender"] = << >>
    BY <1>1, <1>3, <1>8, SenderGoes DEF SenderReply, ClientExits
  <2> QED BY <1>1, <1>7, <2>1
          DEF Conversation, AtLogin, AtLoginReply, AtInput, AtReply, AtExit
<1>9. CASE asked.tag # "quit"
  <2>1. client'["sender"] = "input" /\ net' = net
    BY <1>9, SenderGoes DEF SenderReply
  <2>2. AtInput'
    BY <1>1, <1>3, <1>5, <1>6, <1>7, <1>9, <2>1 DEF AtInput, Quiet, Settled, Served
  <2> QED BY <1>3, <2>1, <2>2 DEF Conversation, AtLogin, AtLoginReply, AtReply, AtExit
<1> QED BY <1>8, <1>9

(* The worker reads a message only where the conversation expects one.     *)
LEMMA ConversationWorkerLogin ==
  ASSUME TypeInv, Conversation, SenderWorkerLogin, UNCHANGED server
  PROVE  Conversation'
<1> USE EndsAre
<1>1. /\ worker["sender"] = "login" /\ WorkerReceives("sender")
      /\ UNCHANGED <<down, net, client, rm, asked, told, acked, sent, main>>
  BY DEF SenderWorkerLogin, server
<1>2. CASE client["sender"] = "exited"
  <2>1. up'["sender"] = << >>
    <3>1. CASE up["sender"] = << >>
      BY <1>1, <3>1, SenderWorkerSeesEnd
    <3>2. CASE up["sender"] = <<LoginMessage>>
      BY <1>1, <3>2, SenderWorkerReceives, LoginFits
    <3>3. CASE up["sender"] = <<asked>> /\ Request(asked)
      BY <1>1, <3>3, SenderWorkerReceives DEF Request
    <3> QED BY <1>2, <3>1, <3>2, <3>3 DEF Conversation, AtExit
  <2> QED BY <1>1, <1>2, <2>1
          DEF Conversation, AtLogin, AtLoginReply, AtInput, AtReply, AtExit
<1>3. CASE client["sender"] # "exited"
  <2>1. net["sender"] = "open"
    BY <1>3 DEF Conversation
  <2>2. up["sender"] # << >>
    BY <1>1, <2>1, SenderWorkerSeesEnd
  <2>3. /\ client["sender"] = "loginReply" /\ up["sender"] = <<LoginMessage>>
        /\ down["sender"] = << >> /\ Settled /\ Served
    BY <1>1, <1>3, <2>2
       DEF Conversation, AtLogin, AtLoginReply, AtInput, AtReply, Quiet
  <2>4. up'["sender"] = << >> /\ Incoming("sender") = LoginMessage
    BY <1>1, <2>3, SenderWorkerReceives, LoginFits
  <2>5. answer' = Ok /\ worker'["sender"] = "reply"
    <3>1. LoginMessage.tag = "slogin" /\ checkStyle(LoginMessage)
      BY LoginFits, MaxLenAssumption, LineAssumption, TagsAre
         DEF checkStyle, LoginMessage, Message, Short
    <3>2. answer' = Ok /\ WorkerGoto("sender", "reply")
      BY <2>4, <3>1 DEF SenderWorkerLogin
    <3> QED BY <3>2, SenderWorkerGoes
  <2>6. AtLoginReply'
    BY <1>1, <2>3, <2>4, <2>5 DEF AtLoginReply, Quiet, Settled, Served
  <2> QED BY <1>1, <2>1, <2>3, <2>6
          DEF Conversation, AtLogin, AtInput, AtReply, AtExit
<1> QED BY <1>2, <1>3

(* What the worker does with a request is what the answer says.            *)
LEMMA RequestHandled ==
  ASSUME TypeInv, UNCHANGED server, Request(asked), Settled,
         worker["sender"] = "receive", Incoming("sender") = asked,
         HandleJoin \/ HandleLeave \/ HandleQuit \/ HandleText
  PROVE  /\ Handled'
         /\ worker'["sender"] = IF asked.tag = "quit" THEN "lastReply" ELSE "reply"
<1>1. UNCHANGED <<asked, told, acked>>
  BY DEF HandleJoin, HandleLeave, HandleQuit, HandleText, Handles
<1>2. told = rm /\ sent = acked
  BY DEF Settled
<1>3. Ok # Err
  BY OkErr
<1>4. CASE HandleJoin
  <2>1. asked.tag = "join" /\ rm' = asked.body /\ answer' = Ok /\ sent' = sent
        /\ WorkerGoto("sender", "reply")
    BY <1>4 DEF HandleJoin, Handles
  <2> QED BY <1>1, <1>2, <2>1, SenderWorkerGoes DEF Handled
<1>5. CASE HandleLeave
  <2>1. asked.tag = "leave" /\ rm' = NoRoom /\ sent' = sent
        /\ answer' = (IF rm = NoRoom THEN Err ELSE Ok) /\ WorkerGoto("sender", "reply")
    BY <1>5 DEF HandleLeave, Handles
  <2> QED BY <1>1, <1>2, <1>3, <2>1, SenderWorkerGoes DEF Handled
<1>6. CASE HandleQuit
  <2>1. asked.tag = "quit" /\ rm' = rm /\ answer' = Ok /\ sent' = sent
        /\ WorkerGoto("sender", "lastReply")
    BY <1>6 DEF HandleQuit, Handles
  <2> QED BY <1>1, <1>2, <2>1, SenderWorkerGoes DEF Handled
<1>7. CASE HandleText
  <2>1. asked.tag = "sendall" /\ asked.len # 0 /\ checkStyle(asked)
    BY <1>7 DEF HandleText, Handles, Request, checkStyle
  <2>2. /\ rm' = rm /\ WorkerGoto("sender", "reply")
        /\ IF rm = NoRoom THEN answer' = Err /\ sent' = sent
           ELSE answer' = Ok /\ sent' = Append(sent, <<rm, asked.body>>)
    BY <1>7, <2>1 DEF HandleText, Broadcast
  <2> QED BY <1>1, <1>2, <1>3, <2>1, <2>2, SenderWorkerGoes DEF Handled
<1> QED BY <1>4, <1>5, <1>6, <1>7

LEMMA ConversationHandlers ==
  ASSUME TypeInv, Conversation, UNCHANGED server,
         HandleJoin \/ HandleLeave \/ HandleQuit \/ HandleText
  PROVE  Conversation'
<1> USE EndsAre
<1>1. /\ worker["sender"] = "receive" /\ WorkerReceives("sender")
      /\ UNCHANGED <<down, net, client, asked, told, acked, main>>
  BY DEF HandleJoin, HandleLeave, HandleQuit, HandleText, Handles, server
<1>2. CASE client["sender"] = "exited"
  <2>1. CASE up["sender"] = << >>
    <3>1. up'["sender"] = << >> /\ Incoming("sender") = Eof(NoBody)
      BY <1>1, <2>1, SenderWorkerSeesEnd
    <3>2. sent' = sent
      BY <3>1, EofType DEF HandleJoin, HandleLeave, HandleQuit, HandleText, Handles
    <3>3. AtExit'
      BY <1>1, <1>2, <2>1, <3>1, <3>2 DEF Conversation, AtExit
    <3> QED BY <1>1, <1>2, <3>3 DEF Conversation, AtLogin, AtLoginReply, AtInput, AtReply
  <2>2. CASE up["sender"] = <<LoginMessage>>
    <3>1. Incoming("sender") = LoginMessage
      BY <1>1, <2>2, SenderWorkerReceives, LoginFits
    <3> QED BY <3>1, LoginFits DEF HandleJoin, HandleLeave, HandleQuit, HandleText, Handles
  <2>3. CASE up["sender"] = <<asked>> /\ Request(asked)
    <3>1. up'["sender"] = << >>
      BY <1>1, <2>3, SenderWorkerReceives DEF Request
    <3>2. sent = acked
      BY <1>2, <2>3 DEF Conversation, AtExit
    <3>3. sent' = sent \/ \E p : sent' = Append(sent, p)
      BY DEF HandleJoin, HandleLeave, HandleQuit, HandleText, Broadcast
    <3>4. sent' = sent \/ (IsPrefix(sent, sent') /\ Len(sent') = Len(sent) + 1)
      <4>1. sent \in Seq(RoomNames \X Bodies)
        BY DEF TypeInv, QueueType
      <4>2. CASE \E p : sent' = Append(sent, p)
        <5>1. PICK p : sent' = Append(sent, p)
          BY <4>2
        <5>2. IsPrefix(sent, Append(sent, p)) /\ Len(Append(sent, p)) = Len(sent) + 1
          BY <4>1, AppendPrefix
        <5> QED BY <5>1, <5>2
      <4> QED BY <3>3, <4>2
    <3>5. AtExit'
      BY <1>1, <3>1, <3>2, <3>4 DEF AtExit
    <3> QED BY <1>1, <1>2, <3>5 DEF Conversation, AtLogin, AtLoginReply, AtInput, AtReply
  <2> QED BY <1>2, <2>1, <2>2, <2>3 DEF Conversation, AtExit
<1>3. CASE client["sender"] # "exited"
  <2>1. net["sender"] = "open"
    BY <1>3 DEF Conversation
  <2>2. up["sender"] # << >>
    BY <1>1, <2>1, SenderWorkerSeesEnd
  <2>3. /\ client["sender"] = "reply" /\ up["sender"] = <<asked>>
        /\ down["sender"] = << >> /\ Settled /\ Request(asked)
        /\ (asked.tag # "quit" => Served)
    BY <1>1, <1>3, <2>2
       DEF Conversation, AtLogin, AtLoginReply, AtInput, AtReply, Quiet, Unserved
  <2>4. up'["sender"] = << >> /\ Incoming("sender") = asked
    BY <1>1, <2>3, SenderWorkerReceives DEF Request
  <2>5. /\ Handled'
        /\ worker'["sender"] = IF asked.tag = "quit" THEN "lastReply" ELSE "reply"
    BY <1>1, <2>3, <2>4, RequestHandled
  <2>6. AtReply'
    BY <1>1, <2>3, <2>4, <2>5 DEF AtReply, Quiet, Served, Request
  <2> QED BY <1>1, <2>1, <2>3, <2>6
          DEF Conversation, AtLogin, AtLoginReply, AtInput, AtExit
<1> QED BY <1>2, <1>3

LEMMA ConversationWorkerReplies ==
  ASSUME TypeInv, Conversation, UNCHANGED server,
         SenderWorkerReply \/ LastReply("sender", answer) \/ SenderWorkerFails
  PROVE  Conversation'
<1> USE EndsAre
<1>1. UNCHANGED <<up, client, answer, rm, asked, told, acked, sent, main>>
  BY DEF SenderWorkerReply, LastReply, SenderWorkerFails, senderVars, streams, server
<1>2. CASE client["sender"] = "exited"
  BY <1>1, <1>2
     DEF Conversation, AtLogin, AtLoginReply, AtInput, AtReply, AtExit, Request
<1>3. CASE client["sender"] # "exited"
  <2>1. net["sender"] = "open"
    BY <1>3 DEF Conversation
  <2>2. CASE SenderWorkerReply
    <3>1. /\ worker["sender"] = "reply" /\ WorkerSends("sender", answer)
          /\ WorkerGoto("sender", "receive")
      BY <2>2 DEF SenderWorkerReply
    <3>2. worker'["sender"] = "receive"
      BY <3>1, SenderWorkerGoes
    <3>3. down["sender"] = << >>
      BY <1>3, <3>1
         DEF Conversation, AtLogin, AtLoginReply, AtInput, AtReply, Quiet, Unserved
    <3>4. down'["sender"] = <<answer>> /\ net' = net
      BY <2>1, <3>1, <3>3, SenderWorkerSends DEF TypeInv, SenderType
    <3>5. CASE client["sender"] = "loginReply"
      <4>1. up["sender"] = << >> /\ Settled /\ Served /\ answer = Ok
        BY <3>1, <3>5 DEF Conversation, AtLoginReply, Unserved, Quiet
      <4>2. AtLoginReply'
        BY <1>1, <3>2, <3>4, <4>1 DEF AtLoginReply, Settled, Served
      <4> QED BY <1>1, <2>1, <3>4, <3>5, <4>2
              DEF Conversation, AtLogin, AtInput, AtReply, AtExit
    <3>6. CASE client["sender"] = "reply"
      <4>1. /\ up["sender"] = << >> /\ Handled /\ Request(asked) /\ asked.tag # "quit"
        BY <3>1, <3>6 DEF Conversation, AtReply, Quiet
      <4>2. AtReply'
        BY <1>1, <3>2, <3>4, <4>1 DEF AtReply, Request, Handled, Served
      <4> QED BY <1>1, <2>1, <3>4, <3>6, <4>2
              DEF Conversation, AtLogin, AtLoginReply, AtInput, AtExit
    <3> QED BY <1>3, <3>1, <3>5, <3>6 DEF Conversation, AtLogin, AtInput, Unserved
  <2>3. CASE LastReply("sender", answer)
    <3>1. /\ worker["sender"] = "lastReply" /\ WorkerSends("sender", answer)
          /\ WorkerGoto("sender", "exited")
      BY <2>1, <2>3 DEF LastReply
    <3>2. worker'["sender"] = "exited"
      BY <3>1, SenderWorkerGoes
    <3>3. /\ client["sender"] = "reply" /\ Quiet /\ Handled /\ Request(asked)
          /\ asked.tag = "quit"
      BY <1>3, <3>1
         DEF Conversation, AtLogin, AtLoginReply, AtInput, AtReply, Unserved
    <3>4. down'["sender"] = <<answer>> /\ net' = net
      BY <2>1, <3>1, <3>3, SenderWorkerSends DEF TypeInv, SenderType, Quiet
    <3>5. AtReply'
      BY <1>1, <3>2, <3>3, <3>4 DEF AtReply, Request, Handled, Quiet
    <3> QED BY <1>1, <2>1, <3>3, <3>4, <3>5
            DEF Conversation, AtLogin, AtLoginReply, AtInput, AtExit
  <2>4. CASE SenderWorkerFails
    BY <2>1, <2>4 DEF SenderWorkerFails
  <2> QED BY <2>2, <2>3, <2>4
<1> QED BY <1>2, <1>3

(* However the client ends, at most its last request is left.              *)
LEMMA ConversationExits ==
  ASSUME TypeInv, Conversation, NEW unread, ClientExits("sender", unread),
         client["sender"] # "exited",
         UNCHANGED <<up, senderVars, sent>>
  PROVE  Conversation'
<1> USE EndsAre
<1>1. client'["sender"] = "exited"
  BY SenderGoes DEF ClientExits
<1>2. UNCHANGED <<up, asked, acked, sent>>
  BY DEF senderVars
<1>3. CASE client["sender"] \in {"login", "loginReply", "input"}
  <2>1. sent = acked /\ (up["sender"] = << >> \/ up["sender"] = <<LoginMessage>>)
    BY <1>3 DEF Conversation, AtLogin, AtLoginReply, AtInput, Quiet, Settled
  <2> QED BY <1>1, <1>2, <2>1
          DEF Conversation, AtLogin, AtLoginReply, AtInput, AtReply, AtExit
<1>4. CASE client["sender"] = "reply"
  <2>1. \/ sent = acked /\ up["sender"] = <<asked>> /\ Request(asked)
        \/ up["sender"] = << >> /\ (Handled \/ sent = acked)
    BY <1>4 DEF Conversation, AtReply, Quiet, Settled
  <2>2. Handled => sent = acked \/ (IsPrefix(acked, sent) /\ Len(sent) = Len(acked) + 1)
    <3>1. acked \in Seq(Rooms \X Bodies)
      BY DEF TypeInv, SenderType
    <3>2. CASE sent = Append(acked, <<told, asked.body>>)
      BY <3>1, <3>2, AppendPrefix
    <3>3. Handled => sent = acked \/ sent = Append(acked, <<told, asked.body>>)
      BY DEF Handled
    <3> QED BY <3>2, <3>3
  <2> QED BY <1>1, <1>2, <2>1, <2>2
          DEF Conversation, AtLogin, AtLoginReply, AtInput, AtReply, AtExit, Request
<1> QED BY <1>3, <1>4 DEF Conversation

LEMMA ConversationMainThread ==
  ASSUME TypeInv, Conversation, handle_client_requests
  PROVE  Conversation'
<1> USE EndsAre
<1>1. UNCHANGED <<up, down, net, client, answer, rm, asked, told, acked, sent>>
  BY DEF handle_client_requests, AcceptFails, Accept, ThreadFails, senderVars, streams
<1>2. CASE AcceptFails
  <2>1. main' = "exited" /\ worker'["sender"] = "exited"
    BY <1>2 DEF AcceptFails
  <2> QED BY <1>1, <2>1
          DEF Conversation, AtLogin, AtLoginReply, AtInput, AtReply, AtExit,
              Quiet, Settled, Served, Handled, Request, Unserved
<1>3. CASE Accept("sender") \/ ThreadFails("sender")
  <2>1. worker["sender"] = "none" /\ worker'["sender"] \in {"login", "refused"}
    BY <1>3, SenderWorkerGoes DEF Accept, ThreadFails, ClientAccepted
  <2> QED BY <1>1, <2>1
          DEF Conversation, AtLogin, AtLoginReply, AtInput, AtReply, AtExit,
              Quiet, Settled, Served, Handled, Request, Unserved
<1>4. CASE Accept("receiver") \/ ThreadFails("receiver")
  <2>1. worker'["sender"] = worker["sender"] /\ main = "accepts"
    BY <1>4 DEF Accept, ThreadFails, ClientAccepted, WorkerGoto, TypeInv, PlaceType
  <2> QED BY <1>1, <2>1
          DEF Conversation, AtLogin, AtLoginReply, AtInput, AtReply, AtExit,
              Quiet, Settled, Served, Handled, Request, Unserved
<1> QED BY <1>2, <1>3, <1>4 DEF handle_client_requests, Ends

(* When the rooms are gone a request may be read and never be answered.    *)
LEMMA ConversationDestroyed ==
  ASSUME TypeInv, Conversation, LastThreadEnds \/ \E e \in Ends : UseDestroyed(e)
  PROVE  Conversation'
<1> USE EndsAre
<1>1. UNCHANGED <<down, net, client, answer, rm, asked, told, acked, sent>>
  BY DEF LastThreadEnds, UseDestroyed, senderVars, streams
<1>2. CASE /\ up'["sender"] = up["sender"]
           /\ \/ main' = main /\ worker'["sender"] = worker["sender"]
              \/ main' = "exited" /\ worker'["sender"] = "exited"
  BY <1>1, <1>2
     DEF Conversation, AtLogin, AtLoginReply, AtInput, AtReply, AtExit,
         Quiet, Settled, Served, Handled, Request, Unserved
<1>3. CASE LastThreadEnds
  BY <1>2, <1>3 DEF LastThreadEnds, streams
<1>4. CASE UseDestroyed("receiver")
  BY <1>2, <1>4 DEF UseDestroyed, WorkerGoto, TypeInv, StreamType, PlaceType
<1>5. CASE UseDestroyed("sender")
  <2>1. /\ worker["sender"] = "add" \/ (worker["sender"] = "receive" /\ CanReceive("sender"))
        /\ up' = [up EXCEPT !["sender"] =
                    IF worker["sender"] = "add" \/ up["sender"] = << >> THEN up["sender"]
                    ELSE Remaining(up["sender"])]
        /\ \/ main' = main /\ worker'["sender"] = "stuck"
           \/ main' = "exited" /\ worker'["sender"] = "exited"
    BY <1>5, SenderWorkerGoes DEF UseDestroyed, UsesRooms
  <2>2. CASE client["sender"] = "exited"
    <3>1. up'["sender"] = up["sender"] \/ up'["sender"] = << >>
      <4>1. CASE worker["sender"] = "add" \/ up["sender"] = << >>
        BY <2>1, <4>1 DEF TypeInv, StreamType
      <4>2. CASE /\ worker["sender"] # "add"
                 /\ \E m : up["sender"] = <<m>> /\ Size(m) <= ReadLimit
        BY <2>1, <4>2, WholeLine DEF TypeInv, StreamType
      <4> QED BY <2>2, <4>1, <4>2, LoginFits DEF Conversation, AtExit, Request
    <3> QED BY <1>1, <2>2, <3>1
            DEF Conversation, AtLogin, AtLoginReply, AtInput, AtReply, AtExit, Request
  <2>3. CASE client["sender"] # "exited"
    <3>1. net["sender"] = "open"
      BY <2>3 DEF Conversation
    <3>2. worker["sender"] = "receive" /\ up["sender"] # << >>
      BY <2>1, <2>3, <3>1
         DEF CanReceive, Readable, Conversation, AtLogin, AtLoginReply, AtInput, AtReply,
             Unserved
    <3>3. /\ client["sender"] = "reply" /\ up["sender"] = <<asked>>
          /\ down["sender"] = << >> /\ Settled /\ Request(asked)
      BY <2>3, <3>2
         DEF Conversation, AtLogin, AtLoginReply, AtInput, AtReply, Quiet, Unserved
    <3>4. up'["sender"] = << >>
      BY <2>1, <3>2, <3>3, WholeLine DEF Request, TypeInv, StreamType
    <3>5. AtReply'
      BY <1>1, <2>1, <3>3, <3>4 DEF AtReply, Quiet, Settled, Served, Request
    <3> QED BY <1>1, <3>1, <3>3, <3>5
            DEF Conversation, AtLogin, AtLoginReply, AtInput, AtExit
  <2> QED BY <2>2, <2>3
<1> QED BY <1>3, <1>4, <1>5 DEF Ends

LEMMA ConversationOthers ==
  ASSUME TypeInv, Conversation, UNCHANGED server,
         \/ ReceiverClient \/ ReceiverWorker
         \/ ResetArrives("receiver") \/ ClientKilled("receiver") \/ ClientFails("receiver")
  PROVE  Conversation'
<1> USE EndsAre
<1>1. UNCHANGED <<senderVars, sent, main>>
  BY DEF ReceiverClient, ReceiverAsks, ReceiverAnswered, ReceiverPrints, ReceiverWorker,
         ReceiverWorkerReads, ReceiverWorkerAnswers, AddMember, Dequeue, Deliver,
         ReceiverWorkerFails, LastReply, ResetArrives, ClientKilled,
         ClientFails, server
<1>2. up'["sender"] = up["sender"] /\ down'["sender"] = down["sender"]
  BY DEF ReceiverClient, ReceiverAsks, ReceiverAnswered, ReceiverPrints, ReceiverWorker,
         ReceiverWorkerReads, ReceiverWorkerAnswers, AddMember, Dequeue, Deliver,
         ReceiverWorkerFails, LastReply, ResetArrives, ClientKilled, ClientFails,
         streams,
         ClientSends, ClientReceives, WorkerSends, WorkerReceives, TypeInv, StreamType
<1>3. net'["sender"] = net["sender"]
  BY DEF ReceiverClient, ReceiverAsks, ReceiverAnswered, ReceiverPrints, ReceiverWorker,
         ReceiverWorkerReads, ReceiverWorkerAnswers, AddMember, Dequeue, Deliver,
         ReceiverWorkerFails, LastReply, ResetArrives, ClientKilled, ClientFails,
         streams,
         ClientExits, WorkerSends, TypeInv, PlaceType
<1>4. client'["sender"] = client["sender"] /\ worker'["sender"] = worker["sender"]
  BY DEF ReceiverClient, ReceiverAsks, ReceiverAnswered, ReceiverPrints, ReceiverWorker,
         ReceiverWorkerReads, ReceiverWorkerAnswers, AddMember, Dequeue, Deliver,
         ReceiverWorkerFails, LastReply, ResetArrives, ClientKilled, ClientFails,
         ClientExits, ClientGoto, WorkerGoto, TypeInv, PlaceType
<1> QED BY <1>1, <1>2, <1>3, <1>4, ViewKept DEF View

LEMMA ConversationStep ==
  ASSUME TypeInv, Conversation, LinesFit, [Next]_vars
  PROVE  Conversation'
<1>1. CASE handle_client_requests
  BY <1>1, ConversationMainThread
<1>2. CASE SenderClient /\ UNCHANGED server
  BY <1>2, ConversationLogin, ConversationRequest, ConversationReply DEF SenderClient
<1>3. CASE SenderWorker /\ UNCHANGED server
  BY <1>3, ConversationWorkerLogin, ConversationHandlers, ConversationWorkerReplies
     DEF SenderWorker
<1>4. CASE /\ ResetArrives("sender") \/ ClientKilled("sender") \/ ClientFails("sender")
           /\ UNCHANGED server
  <2>1. CASE ResetArrives("sender")
    <3>1. client["sender"] = "exited"
      BY <2>1 DEF ResetArrives, Conversation
    <3>2. UNCHANGED <<up, client, senderVars, sent>>
      BY <2>1 DEF ResetArrives, streams
    <3> QED BY <3>1, <3>2
            DEF Conversation, AtLogin, AtLoginReply, AtInput, AtReply, AtExit, Request,
                senderVars
  <2>2. CASE ClientKilled("sender") \/ ClientFails("sender")
    <3>1. /\ ClientExits("sender", down["sender"]) /\ client["sender"] # "exited"
          /\ UNCHANGED <<up, senderVars, sent>>
      BY <2>2 DEF ClientKilled, ClientFails, streams
    <3> QED BY <3>1, ConversationExits
  <2> QED BY <1>4, <2>1, <2>2
<1>5. CASE /\ \/ ReceiverClient \/ ReceiverWorker
              \/ ResetArrives("receiver") \/ ClientKilled("receiver")
              \/ ClientFails("receiver")
           /\ UNCHANGED server
  BY <1>5, ConversationOthers
<1>6. CASE LastThreadEnds \/ \E e \in Ends : UseDestroyed(e)
  BY <1>6, ConversationDestroyed
<1>7. CASE UNCHANGED vars
  BY <1>7, ViewKept DEF vars, server, chatVars, streams, View
<1> QED BY <1>1, <1>2, <1>3, <1>4, <1>5, <1>6, <1>7 DEF Next, Ends

LEMMA ConversationInvariant == ASSUME LinesFit PROVE Spec => []Conversation
<1>1. Conversation /\ TypeInv /\ [Next]_vars => Conversation'
  BY ConversationStep
<1> QED BY <1>1, ConversationInit, TypeInvariant, PTL DEF Spec

(* server.cpp:170-256 and sender.cpp: as long as no line has a length that  *)
(* the server cuts, however the two clients, their workers and the main     *)
(* thread interleave and whoever ends, each request that sender.cpp is done *)
(* waiting for has had one reply, and the room it was told it is in is the  *)
(* one its worker holds.                                                    *)
THEOREM StaysInStep == ASSUME LinesFit PROVE Spec => []InStep
<1>1. Conversation => InStep
  BY DEF Conversation, AtInput, Quiet, Settled, Served, InStep
<1> QED BY <1>1, ConversationInvariant, PTL

(* Then what the user was told was sent is what was broadcast, in order,    *)
(* once, to the room the user was told about, with at most the last line    *)
(* broadcast and not yet answered.                                          *)
THEOREM ToldIsSent == ASSUME LinesFit PROVE Spec => []AckedIsBroadcast
<1>1. TypeInv /\ Conversation => AckedIsBroadcast
  <2> SUFFICES ASSUME TypeInv, Conversation PROVE AckedIsBroadcast
    OBVIOUS
  <2>1. acked \in Seq(Rooms \X Bodies) /\ sent \in Seq(RoomNames \X Bodies)
    BY DEF TypeInv, SenderType, QueueType
  <2>2. \/ sent = acked
        \/ \E p : sent = Append(acked, p)
        \/ IsPrefix(acked, sent) /\ Len(sent) = Len(acked) + 1
    BY DEF Conversation, AtLogin, AtLoginReply, AtInput, AtReply, AtExit, Settled, Handled
  <2>3. CASE sent = acked
    BY <2>1, <2>3 DEF AckedIsBroadcast, IsPrefix
  <2>4. CASE \E p : sent = Append(acked, p)
    <3>1. IsPrefix(acked, sent) /\ Len(sent) = Len(acked) + 1
      BY <2>1, <2>4, AppendPrefix
    <3> QED BY <2>1, <3>1 DEF AckedIsBroadcast
  <2>5. CASE IsPrefix(acked, sent) /\ Len(sent) = Len(acked) + 1
    BY <2>1, <2>5 DEF AckedIsBroadcast
  <2> QED BY <2>2, <2>3, <2>4, <2>5
<1> QED BY <1>1, TypeInvariant, ConversationInvariant, PTL
-----------------------------------------------------------------------------
(* What a receiver hears *)

(* A line that is sent fits a delivery too, with the names put in front. *)
DeliveriesFit ==
  \A len \in DataLengths :
    Size(Message("delivery", NamesLength + len, NoBody)) <= ReadLimit \/ len > MAX_LEN

(* the lines that are read as they were written *)
Lines == {m \in Texts : m.nl /\ Size(m) <= ReadLimit}
Delivered == {m \in Lines : m.tag = "delivery"}

ReceiverLogin == Message("rlogin", Short, NoBody)
ReceiverJoin == Message("join", Short, home)

(* The conversation of a receiver with its worker, while it has one *)
AtReceiverLogin ==
  client["receiver"] = "login" =>
    /\ up["receiver"] = << >> /\ down["receiver"] = << >>
    /\ worker["receiver"] \in Unserved

AtReceiverLoginReply ==
  client["receiver"] = "loginReply" =>
    \/ /\ up["receiver"] = <<ReceiverLogin>> /\ down["receiver"] = << >>
       /\ worker["receiver"] \in Unserved
    \/ /\ up["receiver"] = << >> /\ down["receiver"] = << >>
       /\ worker["receiver"] \in {"loginReply", "exited"}
    \/ /\ up["receiver"] = << >> /\ down["receiver"] = <<Ok>>
       /\ worker["receiver"] \in {"join", "exited"}

AtJoin ==
  client["receiver"] = "join" =>
    /\ up["receiver"] = << >> /\ down["receiver"] = << >>
    /\ worker["receiver"] \in {"join", "exited"}

AtJoinReply ==
  client["receiver"] = "joinReply" =>
    \/ /\ up["receiver"] = <<ReceiverJoin>> /\ down["receiver"] = << >>
       /\ worker["receiver"] \in {"join", "exited"}
    \/ /\ up["receiver"] = << >> /\ down["receiver"] = << >>
       /\ worker["receiver"] \in {"joinReply", "exited"}
    \/ /\ up["receiver"] = << >> /\ down["receiver"] # << >>
       /\ Head(down["receiver"]) = Ok /\ Tail(down["receiver"]) \in Seq(Delivered)
       /\ worker["receiver"] \in {"add", "dequeue", "send", "exited", "stuck"}

AtListen ==
  client["receiver"] = "listen" =>
    /\ up["receiver"] = << >> /\ down["receiver"] \in Seq(Delivered)
    /\ worker["receiver"] \in {"add", "dequeue", "send", "exited", "stuck"}

Reception ==
  /\ client["receiver"] \in {"login", "loginReply", "join", "joinReply", "listen", "exited"}
  /\ net["receiver"] = "open" <=> client["receiver"] # "exited"
  /\ AtReceiverLogin /\ AtReceiverLoginReply /\ AtJoin /\ AtJoinReply /\ AtListen

(* What is queued and sent, and that it starts when the member is added *)
Membership ==
  /\ mqueue \in Seq(Delivered)
  /\ worker["receiver"] = "send" => out \in Delivered
  /\ asked.tag = "sendall" /\ checkStyle(asked) =>
       Size(Message("delivery", NamesLength + asked.len, NoBody)) <= ReadLimit
  /\ start <= Len(sent)
  /\ member =>
       /\ worker["receiver"] \in {"dequeue", "send", "exited"}
       /\ worker["receiver"] = "exited" => main = "exited" \/ net["receiver"] # "open"
  /\ ~member =>
       /\ worker["receiver"] # "send" /\ (worker["receiver"] = "dequeue" => ~RoomsExist)
       /\ printed = << >> /\ mqueue = << >>
       /\ net["receiver"] = "open" => Deliveries(down["receiver"]) = << >>
-----------------------------------------------------------------------------
(* Sequences of lines and of what they say *)

LEMMA LinesAre ==
  /\ Lines \subseteq Texts /\ Delivered \subseteq Lines
  /\ Seq(Lines) \subseteq Seq(Texts) /\ Seq(Delivered) \subseteq Seq(Lines)
  /\ Ok \in Lines /\ Ok \notin Delivered
<1>1. Lines \subseteq Texts /\ Delivered \subseteq Lines
  BY DEF Lines, Delivered
<1>2. Ok \in Lines /\ Ok \notin Delivered
  BY OkErr DEF Lines, Delivered
<1>3. Seq(Lines) \subseteq Seq(Texts)
  BY <1>1
<1>4. Seq(Delivered) \subseteq Seq(Lines)
  BY <1>1
<1> QED BY <1>1, <1>2, <1>3, <1>4

LEMMA WrittenWhole ==
  ASSUME NEW s \in Seq(Lines), NEW m \in Lines
  PROVE  Written(s, m) = Append(s, m)
<1>1. s # << >> => Last(s) \in Lines
  BY LastOf
<1>2. ~(s # << >> /\ ~Last(s).nl)
  BY <1>1 DEF Lines
<1> QED BY <1>2 DEF Written

LEMMA ReadWhole ==
  ASSUME NEW s \in Seq(Lines), s # << >>
  PROVE  Received(s) = Head(s) /\ Remaining(s) = Tail(s) /\ Head(s) \in Lines
<1>1. Head(s) \in Lines
  OBVIOUS
<1>2. Size(Head(s)) <= ReadLimit
  BY <1>1 DEF Lines
<1> QED BY <1>1, <1>2 DEF Received, Remaining

LEMMA BodiesType ==
  ASSUME NEW s \in Seq(Texts)
  PROVE  /\ BodiesOf(s) \in Seq(Bodies) /\ Len(BodiesOf(s)) = Len(s)
         /\ \A i \in 1..Len(s) : BodiesOf(s)[i] = s[i].body
<1>1. \A i \in 1..Len(s) : s[i] \in Texts
  OBVIOUS
<1>2. \A i \in 1..Len(s) : s[i].body \in Bodies
  BY <1>1, TextIs
<1>3. DOMAIN s = 1..Len(s) /\ Len(s) \in Nat
  OBVIOUS
<1>4. BodiesOf(s) = [i \in 1..Len(s) |-> s[i].body]
  BY <1>3 DEF BodiesOf
<1> QED BY <1>2, <1>3, <1>4

LEMMA BodiesAppend ==
  ASSUME NEW s \in Seq(Texts), NEW m \in Texts
  PROVE  BodiesOf(Append(s, m)) = BodiesOf(s) \o <<m.body>>
<1> DEFINE t == Append(s, m)
           u == BodiesOf(s) \o <<m.body>>
<1>1. t \in Seq(Texts) /\ Len(t) = Len(s) + 1 /\ Len(s) \in Nat
      /\ \A i \in 1..Len(t) : t[i] = IF i <= Len(s) THEN s[i] ELSE m
  OBVIOUS
<1> HIDE DEF t
<1>2. /\ BodiesOf(t) \in Seq(Bodies) /\ Len(BodiesOf(t)) = Len(t)
      /\ \A i \in 1..Len(t) : BodiesOf(t)[i] = t[i].body
  BY <1>1, BodiesType
<1>3. /\ BodiesOf(s) \in Seq(Bodies) /\ Len(BodiesOf(s)) = Len(s)
      /\ \A i \in 1..Len(s) : BodiesOf(s)[i] = s[i].body
  BY BodiesType
<1>4. m.body \in Bodies /\ <<m.body>> \in Seq(Bodies)
      /\ Len(<<m.body>>) = 1 /\ <<m.body>>[1] = m.body
  BY TextIs
<1>5. /\ u \in Seq(Bodies) /\ Len(u) = Len(s) + 1
      /\ \A i \in 1..Len(s) + 1 : u[i] = IF i <= Len(s) THEN s[i].body ELSE m.body
  <2> DEFINE b == BodiesOf(s)
             c == <<m.body>>
  <2> HIDE DEF b, c
  <2>1. /\ b \o c \in Seq(Bodies) /\ Len(b \o c) = Len(b) + Len(c)
        /\ \A i \in 1..Len(b) + Len(c) :
             (b \o c)[i] = IF i <= Len(b) THEN b[i] ELSE c[i - Len(b)]
    BY <1>3, <1>4, ConcatProperties DEF b, c
  <2>2. u = b \o c
    BY DEF b, c
  <2>3. Len(b) = Len(s) /\ Len(c) = 1 /\ c[1] = m.body
        /\ \A i \in 1..Len(s) : b[i] = s[i].body
    BY <1>3, <1>4 DEF b, c
  <2> HIDE DEF u
  <2> QED BY <1>1, <2>1, <2>2, <2>3
<1> HIDE DEF u
<1>6. \A i \in 1..Len(BodiesOf(t)) : BodiesOf(t)[i] = u[i]
  BY <1>1, <1>2, <1>5
<1>7. BodiesOf(t) = u
  BY <1>1, <1>2, <1>5, <1>6, SeqEqual
<1> QED BY <1>7 DEF t, u

LEMMA BodiesHead ==
  ASSUME NEW s \in Seq(Texts), s # << >>
  PROVE  BodiesOf(s) = <<Head(s).body>> \o BodiesOf(Tail(s))
<1> DEFINE t == Tail(s)
           b == BodiesOf(t)
           c == <<Head(s).body>>
<1>1. t \in Seq(Texts) /\ Len(s) \in Nat /\ Len(t) = Len(s) - 1 /\ Head(s) = s[1]
      /\ Head(s) \in Texts /\ \A i \in 1..Len(t) : t[i] = s[i + 1]
  OBVIOUS
<1> HIDE DEF t
<1>2. b \in Seq(Bodies) /\ Len(b) = Len(t) /\ \A i \in 1..Len(t) : b[i] = t[i].body
  BY <1>1, BodiesType
<1>3. /\ BodiesOf(s) \in Seq(Bodies) /\ Len(BodiesOf(s)) = Len(s)
      /\ \A i \in 1..Len(s) : BodiesOf(s)[i] = s[i].body
  BY BodiesType
<1>4. c \in Seq(Bodies) /\ Len(c) = 1 /\ c[1] = s[1].body
  BY <1>1, TextIs
<1> HIDE DEF b, c
<1>5. /\ c \o b \in Seq(Bodies) /\ Len(c \o b) = Len(c) + Len(b)
      /\ \A i \in 1..Len(c) + Len(b) :
           (c \o b)[i] = IF i <= Len(c) THEN c[i] ELSE b[i - Len(c)]
  BY <1>2, <1>4, ConcatProperties
<1>6. Len(c \o b) = Len(s)
  BY <1>1, <1>2, <1>4, <1>5
<1>7. \A i \in 1..Len(BodiesOf(s)) : BodiesOf(s)[i] = (c \o b)[i]
  <2> SUFFICES ASSUME NEW i \in 1..Len(s) PROVE BodiesOf(s)[i] = (c \o b)[i]
    BY <1>3
  <2>1. CASE i = 1
    BY <2>1, <1>1, <1>2, <1>3, <1>4, <1>5
  <2>2. CASE i # 1
    <3>1. i - 1 \in 1..Len(t)
      BY <2>2, <1>1
    <3>2. b[i - 1] = t[i - 1].body /\ t[i - 1] = s[i - 1 + 1]
      BY <3>1, <1>1, <1>2
    <3>3. (c \o b)[i] = b[i - 1]
      BY <2>2, <1>1, <1>2, <1>4, <1>5
    <3> QED BY <3>2, <3>3, <1>3
  <2> QED BY <2>1, <2>2
<1>8. BodiesOf(s) = c \o b
  BY <1>3, <1>5, <1>6, <1>7, SeqEqual
<1> QED BY <1>8 DEF b, c, t

LEMMA BodiesNone == BodiesOf(<< >>) = << >> /\ << >> \in Seq(Bodies) /\ << >> \in Seq(Texts)
<1>1. << >> \in Seq(Texts)
  OBVIOUS
<1>2. BodiesOf(<< >>) \in Seq(Bodies) /\ Len(BodiesOf(<< >>)) = 0
  BY <1>1, BodiesType
<1> QED BY <1>1, <1>2

LEMMA Associative == \A s, t, u \in Seq(Bodies) : (s \o t) \o u = s \o (t \o u)
BY ConcatAssociative

(* The four places where a line on its way to the receiver can be, and the  *)
(* moves from each to the one before it.                                    *)
LEMMA LineQueued ==
  ASSUME NEW f \in Seq(Bodies), NEW d \in Seq(Bodies), NEW x \in Bodies
  PROVE  f \o (d \o <<x>>) = Append(f \o d, x)
<1> DEFINE e == <<x>>
           h == f \o d
<1>1. e \in Seq(Bodies)
  OBVIOUS
<1>2. h \in Seq(Bodies)
  BY ConcatProperties
<1>3. (f \o d) \o e = f \o (d \o e)
  BY <1>1, Associative, Zenon
<1> HIDE DEF h
<1>4. Append(h, x) = h \o e
  BY <1>2, AppendIsConcat
<1> QED BY <1>3, <1>4 DEF h

LEMMA LineTaken ==
  ASSUME NEW f \in Seq(Bodies), NEW d \in Seq(Bodies), NEW x \in Bodies
  PROVE  f \o <<x>> \o d = f \o << >> \o (<<x>> \o d)
<1> DEFINE e == <<x>>
<1>1. e \in Seq(Bodies) /\ f \o << >> = f
  BY ConcatEmptySeq
<1> HIDE DEF e
<1>2. (f \o e) \o d = f \o (e \o d)
  BY <1>1, Associative, Zenon
<1> QED BY <1>1, <1>2 DEF e

LEMMA LineDelivered ==
  ASSUME NEW a \in Seq(Bodies), NEW b \in Seq(Bodies), NEW x \in Bodies
  PROVE  a \o (b \o <<x>>) \o << >> = a \o b \o <<x>>
<1> DEFINE e == <<x>>
           f == a \o (b \o e)
<1>1. e \in Seq(Bodies)
  OBVIOUS
<1> HIDE DEF e
<1>2. (a \o b) \o e = f
  BY <1>1, Associative, Zenon
<1>3. f \in Seq(Bodies)
  BY <1>1, ConcatProperties
<1> HIDE DEF f
<1>4. f \o << >> = f
  BY <1>3, ConcatEmptySeq
<1> QED BY <1>2, <1>4 DEF e, f

LEMMA LinePrinted ==
  ASSUME NEW a \in Seq(Bodies), NEW b \in Seq(Bodies), NEW x \in Bodies
  PROVE  Append(a, x) \o b = a \o (<<x>> \o b)
<1> DEFINE e == <<x>>
<1>1. e \in Seq(Bodies) /\ Append(a, x) = a \o e
  BY AppendIsConcat
<1> HIDE DEF e
<1>2. (a \o e) \o b = a \o (e \o b)
  BY <1>1, Associative, Zenon
<1> QED BY <1>1, <1>2 DEF e

(* h holds what s says at the positions in D, in their order. *)
Ranks(h, D, s) ==
  /\ Len(h) = Cardinality(D)
  /\ \A k \in D : h[Cardinality({j \in D : j <= k})] = s[k][2]

(* t says one thing more than s, at n. *)
SaysMore(h, x, D, n, s, t) ==
  /\ h \in Seq(Bodies) /\ x \in Bodies /\ D \in SUBSET Nat /\ IsFiniteSet(D)
  /\ n \in Nat /\ \A j \in D : j < n
  /\ \A k \in D : t[k] = s[k]
  /\ t[n][2] = x /\ Ranks(h, D, s)

LEMMA RanksMore ==
  ASSUME NEW h, NEW x, NEW D, NEW n, NEW s, NEW t, SaysMore(h, x, D, n, s, t)
  PROVE  Ranks(Append(h, x), D \cup {n}, t)
<1> USE DEF SaysMore
<1> DEFINE g == Append(h, x)
           E == D \cup {n}
           Upto(k) == Cardinality({j \in D : j <= k})
<1>0. D \subseteq Nat /\ n \in Nat /\ \A j \in D : j < n
  OBVIOUS
<1>1. n \notin D
  OBVIOUS
<1>2. Cardinality(E) = Cardinality(D) + 1 /\ Cardinality(D) \in Nat
  BY <1>1, FS_AddElement, FS_CardinalityType
<1>3. Len(g) = Len(h) + 1 /\ Len(h) \in Nat
      /\ \A i \in 1..Len(h) : g[i] = h[i] /\ g[Len(h) + 1] = x
  BY AppendProperties
<1>4. Len(h) = Cardinality(D)
  BY DEF Ranks
<1>5. ASSUME NEW k \in D PROVE g[Cardinality({j \in E : j <= k})] = t[k][2]
  <2>1. {j \in E : j <= k} = {j \in D : j <= k}
    <3>1. k \in Nat /\ k < n
      BY <1>0
    <3>2. ~(n <= k)
      BY <1>0, <3>1
    <3> QED BY <3>2
  <2>2. h[Upto(k)] = s[k][2]
    BY DEF Ranks
  <2>3. Upto(k) \in 1..Cardinality(D)
    <3> DEFINE U == {j \in D : j <= k}
    <3>0. k \in Nat
      BY <1>0
    <3>1. U \in SUBSET D /\ k \in U
      BY <3>0
    <3> HIDE DEF U
    <3>2. IsFiniteSet(U) /\ Cardinality(U) <= Cardinality(D)
      BY <3>1, FS_Subset
    <3>3. Cardinality(U) \in Nat /\ Cardinality(U) # 0
      BY <3>1, <3>2, FS_CardinalityType, FS_EmptySet
    <3>4. Cardinality(U) \in 1..Cardinality(D)
      BY <3>2, <3>3, <1>2
    <3> QED BY <3>4 DEF U
  <2> HIDE DEF Upto, g
  <2>4. g[Upto(k)] = h[Upto(k)]
    BY <2>3, <1>3, <1>4
  <2>5. g[Upto(k)] = t[k][2]
    BY <2>2, <2>4
  <2> QED BY <2>1, <2>5 DEF Upto
<1>6. g[Cardinality({j \in E : j <= n})] = t[n][2]
  <2>1. {j \in E : j <= n} = E
    <3>1. \A j \in E : j <= n
      <4> SUFFICES ASSUME NEW j \in E PROVE j <= n
        OBVIOUS
      <4>1. CASE j = n
        BY <4>1
      <4>2. CASE j \in D
        <5>1. j \in Nat /\ j < n
          BY <4>2
        <5> QED BY <5>1
      <4> QED BY <4>1, <4>2
    <3> HIDE DEF E
    <3> QED BY <3>1
  <2>2. g[Cardinality(E)] = x
    BY <1>2, <1>3, <1>4, AppendProperties
  <2> HIDE DEF E, g
  <2> QED BY <2>1, <2>2
<1> HIDE DEF g, E
<1>7. \A k \in E : g[Cardinality({j \in E : j <= k})] = t[k][2]
  BY <1>5, <1>6 DEF E
<1>8. Len(g) = Cardinality(E)
  BY <1>2, <1>3, <1>4
<1>9. Ranks(g, E, t)
  BY <1>7, <1>8 DEF Ranks
<1> QED BY <1>9 DEF g, E

LEMMA RanksKept ==
  ASSUME NEW h, NEW D, NEW s, NEW t, \A k \in D : t[k] = s[k], Ranks(h, D, s)
  PROVE  Ranks(h, D, t)
BY DEF Ranks
-----------------------------------------------------------------------------
(* What the operations do to the receiver's side *)

Hearing == Reception /\ Membership /\ HearsTheRoom

Hears == member /\ net["receiver"] = "open" /\ RoomsExist

ReceiverView ==
  <<up["receiver"], down["receiver"], net["receiver"], client["receiver"],
    worker["receiver"], receiverVars, main>>

LEMMA ReceptionKept == Reception /\ UNCHANGED ReceiverView => Reception'
BY DEF ReceiverView, receiverVars, Reception, AtReceiverLogin, AtReceiverLoginReply, AtJoin,
       AtJoinReply, AtListen, ReceiverJoin

LEMMA HearsKept ==
  ASSUME HearsTheRoom, UNCHANGED <<home, start, sent>>, Hears' => Hears /\ Heard' = Heard
  PROVE  HearsTheRoom'
BY DEF HearsTheRoom, Hears, RoomsExist, Due

LEMMA HearingKept ==
  ASSUME Hearing, UNCHANGED ReceiverView, UNCHANGED <<mqueue, sent, asked>>
  PROVE  Hearing'
<1>1. Reception'
  BY ReceptionKept DEF Hearing
<1>2. Membership'
  BY DEF Hearing, Membership, RoomsExist, ReceiverView, receiverVars
<1>3. Heard' = Heard /\ (Hears' => Hears)
  BY DEF Heard, Hears, ReceiverView, receiverVars, RoomsExist
<1>4. HearsTheRoom'
  BY <1>3, HearsKept DEF Hearing, ReceiverView, receiverVars
<1> QED BY <1>1, <1>2, <1>4 DEF Hearing

LEMMA ReceiverGoes ==
  ASSUME TypeInv, NEW p, ClientGoto("receiver", p)
  PROVE  client'["receiver"] = p
BY EndsAre DEF TypeInv, PlaceType, ClientGoto

LEMMA ReceiverWorkerGoes ==
  ASSUME TypeInv, NEW p, WorkerGoto("receiver", p)
  PROVE  worker'["receiver"] = p
BY EndsAre DEF TypeInv, PlaceType, WorkerGoto

LEMMA ReceiverSends ==
  ASSUME TypeInv, up["receiver"] = << >>, NEW m \in Texts, ClientSends("receiver", m)
  PROVE  up'["receiver"] = <<m>>
<1>1. Written(up["receiver"], m) = <<m>>
  BY BodiesNone, WrittenType
<1> QED BY <1>1, EndsAre DEF TypeInv, StreamType, ClientSends

LEMMA ReceiverReceives ==
  ASSUME TypeInv, down["receiver"] \in Seq(Lines), ClientReceives("receiver")
  PROVE  /\ down["receiver"] # << >>
         /\ Received(down["receiver"]) = Head(down["receiver"])
         /\ Head(down["receiver"]) \in Lines
         /\ down'["receiver"] = Tail(down["receiver"])
<1>1. down["receiver"] # << >>
  BY DEF ClientReceives, Readable
<1>2. /\ Received(down["receiver"]) = Head(down["receiver"])
      /\ Remaining(down["receiver"]) = Tail(down["receiver"])
      /\ Head(down["receiver"]) \in Lines
  BY <1>1, ReadWhole
<1>3. down'["receiver"] = Remaining(down["receiver"])
  BY EndsAre DEF TypeInv, StreamType, ClientReceives
<1> QED BY <1>1, <1>2, <1>3

LEMMA ReceiverWorkerSends ==
  ASSUME TypeInv, net["receiver"] = "open", down["receiver"] \in Seq(Lines),
         NEW m \in Lines, WorkerSends("receiver", m)
  PROVE  down'["receiver"] = Append(down["receiver"], m) /\ net' = net
<1>1. Written(down["receiver"], m) = Append(down["receiver"], m)
  BY WrittenWhole
<1> QED BY <1>1, EndsAre DEF TypeInv, StreamType, WorkerSends

LEMMA ReceiverWorkerProbes ==
  ASSUME TypeInv, net["receiver"] # "open", NEW m, WorkerSends("receiver", m)
  PROVE  net'["receiver"] # "open"
BY EndsAre DEF TypeInv, PlaceType, WorkerSends

LEMMA ReceiverWorkerReceives ==
  ASSUME TypeInv, NEW m, up["receiver"] = <<m>>, Size(m) <= ReadLimit,
         WorkerReceives("receiver")
  PROVE  up'["receiver"] = << >> /\ Incoming("receiver") = m
<1>1. up["receiver"] # << >>
  OBVIOUS
<1> QED BY <1>1, WholeLine, EndsAre DEF TypeInv, StreamType, WorkerReceives, Incoming

LEMMA ReceiverWorkerSeesEnd ==
  ASSUME TypeInv, up["receiver"] = << >>, WorkerReceives("receiver")
  PROVE  net["receiver"] # "open"
BY EndsAre DEF TypeInv, StreamType, WorkerReceives, CanReceive, Readable, Incoming

LEMMA ReceiverFits ==
  /\ ReceiverLogin \in Texts /\ ReceiverLogin.tag = "rlogin" /\ Size(ReceiverLogin) <= ReadLimit
  /\ TypeInv => /\ ReceiverJoin \in Texts /\ ReceiverJoin.tag = "join"
                /\ Size(ReceiverJoin) <= ReadLimit
<1>1. "rlogin" \in Tags /\ "join" \in Tags /\ Short \in Nat /\ Short = 8
  BY TagsAre DEF Tags, Short
<1>2. TagLength["rlogin"] = 6 /\ TagLength["join"] = 4
      /\ "rlogin" \in DOMAIN TagLength /\ "join" \in DOMAIN TagLength
  BY DEF TagLength
<1>3. ReceiverLogin \in Texts
  BY <1>1, NoBodyType, TextMade DEF ReceiverLogin, Message
<1>4. ReceiverLogin.tag = "rlogin" /\ ReceiverLogin.len = 8
  BY <1>1 DEF ReceiverLogin, Message
<1>5. Size(ReceiverLogin) = 15
  BY <1>2, <1>4 DEF Size, Prefix
<1>6. ASSUME TypeInv
      PROVE  ReceiverJoin \in Texts /\ ReceiverJoin.tag = "join" /\ Size(ReceiverJoin) <= ReadLimit
  <2>1. home \in Bodies /\ home \in RoomNames
    BY <1>6 DEF TypeInv, ReceiverType, Bodies
  <2>2. ReceiverJoin \in Texts
    BY <1>1, <2>1, TextMade DEF ReceiverJoin, Message
  <2>3. ReceiverJoin.tag = "join" /\ ReceiverJoin.len = 8
    BY <1>1 DEF ReceiverJoin, Message
  <2>4. Size(ReceiverJoin) = 13
    BY <1>2, <2>3 DEF Size, Prefix
  <2> QED BY <2>2, <2>3, <2>4, LimitType
<1> QED BY <1>3, <1>4, <1>5, <1>6, LimitType

LEMMA ReceiverStyle == checkStyle(ReceiverLogin) /\ checkStyle(ReceiverJoin)
BY TagsAre, MaxLenAssumption, LineAssumption
   DEF checkStyle, ReceiverLogin, ReceiverJoin, Message, Short

LEMMA DeliveredIs ==
  ASSUME NEW m \in Delivered
  PROVE  m \in Lines /\ m \in Texts /\ m.tag = "delivery" /\ checkStyle(m) /\ m.body \in Bodies
<1>1. m \in Lines /\ m \in Texts /\ m.tag = "delivery" /\ Size(m) <= ReadLimit
  BY DEF Delivered, Lines
<1>2. m.len \in Nat /\ Prefix(m) \in Nat /\ m.body \in Bodies
  BY <1>1, TextIs
<1>3. m.len <= MAX_LEN
  BY <1>1, <1>2, MaxLenAssumption DEF Size, ReadLimit
<1> QED BY <1>1, <1>2, <1>3, TagsAre DEF checkStyle

LEMMA DeliveriesAre ==
  /\ Deliveries(<< >>) = << >> /\ Deliveries(<<Ok>>) = << >>
  /\ \A s \in Seq(Delivered) : Deliveries(s) = s
  /\ \A s \in Seq(Lines) : s # << >> /\ Head(s) = Ok => Deliveries(s) = Tail(s)
<1>1. Deliveries(<< >>) = << >> /\ Deliveries(<<Ok>>) = << >>
  BY OkErr DEF Deliveries
<1>2. ASSUME NEW s \in Seq(Delivered) PROVE Deliveries(s) = s
  <2>1. CASE s = << >>
    BY <2>1, <1>1
  <2>2. CASE s # << >>
    <3>1. Head(s) \in Delivered
      BY <2>2
    <3>2. Head(s).tag # "ok"
      BY <3>1, DeliveredIs
    <3> QED BY <3>2 DEF Deliveries
  <2> QED BY <2>1, <2>2
<1>3. ASSUME NEW s \in Seq(Lines), s # << >>, Head(s) = Ok PROVE Deliveries(s) = Tail(s)
  BY <1>3, OkErr DEF Deliveries
<1> QED BY <1>1, <1>2, <1>3

LEMMA WholeLines ==
  ASSUME NEW s \in Seq(Texts), s # << >>, Head(s) = Ok, Tail(s) \in Seq(Lines)
  PROVE  s \in Seq(Lines)
<1>1. /\ Len(s) \in Nat /\ Len(s) # 0 /\ s[1] = Ok /\ Len(Tail(s)) = Len(s) - 1
      /\ \A i \in 1..Len(Tail(s)) : Tail(s)[i] = s[i + 1]
      /\ s = [i \in 1..Len(s) |-> s[i]]
  OBVIOUS
<1>2. \A i \in 1..Len(Tail(s)) : Tail(s)[i] \in Lines
  OBVIOUS
<1>3. ASSUME NEW i \in 1..Len(s) PROVE s[i] \in Lines
  <2>1. CASE i = 1
    BY <1>1, <2>1, LinesAre
  <2>2. CASE i # 1
    <3>1. i - 1 \in 1..Len(Tail(s)) /\ (i - 1) + 1 = i
      BY <1>1, <2>2
    <3>2. Tail(s)[i - 1] = s[i]
      BY <1>1, <3>1
    <3> QED BY <1>2, <3>1, <3>2
  <2> QED BY <2>1, <2>2
<1> QED BY <1>1, <1>3

(* While the connection is open the stream to the receiver has whole lines. *)
LEMMA StreamDown ==
  ASSUME TypeInv, Reception, net["receiver"] = "open"
  PROVE  /\ down["receiver"] \in Seq(Lines)
         /\ Deliveries(down["receiver"]) \in Seq(Delivered)
<1>1. << >> \in Seq(Lines) /\ <<Ok>> \in Seq(Lines) /\ << >> \in Seq(Delivered)
  BY LinesAre
<1>2. CASE down["receiver"] = << >> \/ down["receiver"] = <<Ok>>
  BY <1>1, <1>2, DeliveriesAre
<1>3. CASE down["receiver"] # << >> /\ Head(down["receiver"]) = Ok
           /\ Tail(down["receiver"]) \in Seq(Delivered)
  <2>1. down["receiver"] \in Seq(Texts) /\ Tail(down["receiver"]) \in Seq(Lines)
    BY <1>3, LinesAre, EndsAre DEF TypeInv, StreamType
  <2>2. down["receiver"] \in Seq(Lines)
    BY <1>3, <2>1, WholeLines
  <2> QED BY <1>3, <2>2, DeliveriesAre
<1>4. CASE down["receiver"] \in Seq(Delivered)
  BY <1>4, DeliveriesAre, LinesAre
<1> QED BY <1>2, <1>3, <1>4
        DEF Reception, AtReceiverLogin, AtReceiverLoginReply, AtJoin, AtJoinReply, AtListen

LEMMA HeardIs ==
  ASSUME TypeInv, Hearing, net["receiver"] = "open"
  PROVE  /\ printed \in Seq(Bodies) /\ BodiesOf(mqueue) \in Seq(Bodies)
         /\ BodiesOf(Deliveries(down["receiver"])) \in Seq(Bodies)
         /\ worker["receiver"] = "send" =>
              /\ out.body \in Bodies
              /\ Heard = printed \o BodiesOf(Deliveries(down["receiver"])) \o <<out.body>>
                                 \o BodiesOf(mqueue)
         /\ worker["receiver"] # "send" =>
              Heard = printed \o BodiesOf(Deliveries(down["receiver"])) \o << >>
                              \o BodiesOf(mqueue)
<1>1. /\ printed \in Seq(Bodies) /\ mqueue \in Seq(Texts) /\ out \in Texts
  BY DEF TypeInv, ReceiverType, QueueType
<1>2. Deliveries(down["receiver"]) \in Seq(Texts)
  BY StreamDown, LinesAre DEF Hearing
<1>3. BodiesOf(mqueue) \in Seq(Bodies) /\ BodiesOf(Deliveries(down["receiver"])) \in Seq(Bodies)
  BY <1>1, <1>2, BodiesType
<1>4. BodiesOf(<<out>>) = <<out.body>> /\ out.body \in Bodies
  <2>1. Append(<< >>, out) = <<out>> /\ << >> \o <<out.body>> = <<out.body>>
    OBVIOUS
  <2>2. BodiesOf(Append(<< >>, out)) = BodiesOf(<< >>) \o <<out.body>>
    BY <1>1, BodiesNone, BodiesAppend
  <2>3. out.body \in Bodies
    BY <1>1, TextIs
  <2> QED BY <2>1, <2>2, <2>3, BodiesNone
<1>5. CASE worker["receiver"] = "send"
  <2>1. (IF worker["receiver"] = "send" THEN <<out>> ELSE << >>) = <<out>>
    BY <1>5
  <2>2. Heard = printed \o BodiesOf(Deliveries(down["receiver"])) \o <<out.body>>
                        \o BodiesOf(mqueue)
    BY <2>1, <1>4 DEF Heard
  <2> QED BY <1>1, <1>3, <1>4, <1>5, <2>2
<1>6. CASE worker["receiver"] # "send"
  <2>1. (IF worker["receiver"] = "send" THEN <<out>> ELSE << >>) = << >>
    BY <1>6
  <2>2. Heard = printed \o BodiesOf(Deliveries(down["receiver"])) \o << >>
                        \o BodiesOf(mqueue)
    BY <2>1, BodiesNone DEF Heard
  <2> QED BY <1>1, <1>3, <1>6, <2>2
<1> QED BY <1>5, <1>6

LEMMA DueType ==
  ASSUME TypeInv
  PROVE  /\ Due \in SUBSET Nat /\ IsFiniteSet(Due) /\ Len(sent) \in Nat /\ start \in Nat
         /\ \A j \in Due : j \in 1..Len(sent)
<1>1. Len(sent) \in Nat /\ start \in Nat
  BY DEF TypeInv, QueueType, ReceiverType
<1>2. Due \in SUBSET (start + 1..Len(sent))
  BY DEF Due
<1>3. IsFiniteSet(start + 1..Len(sent))
  BY <1>1, FS_Interval
<1>4. IsFiniteSet(Due)
  BY <1>2, <1>3, FS_Subset
<1>5. \A j \in Due : j \in 1..Len(sent)
  BY <1>1, <1>2
<1> QED BY <1>1, <1>4, <1>5

(* A broadcast to the room of the receiver is one line more to hear. *)
LEMMA HearingBroadcast ==
  ASSUME TypeInv, TypeInv', Hearing, asked.tag = "sendall", asked.nl, checkStyle(asked),
         Broadcast(asked), UNCHANGED ReceiverView, asked' = asked
  PROVE  Hearing'
<1> DEFINE len == NamesLength + asked.len
           d == [asked EXCEPT !.tag = "delivery", !.len = len]
           n == Len(sent) + 1
<1>1. asked \in Texts /\ asked.len \in Nat /\ asked.body \in Bodies /\ len \in Nat
      /\ sent \in Seq(RoomNames \X Bodies) /\ mqueue \in Seq(Delivered)
  <2>1. asked \in Texts /\ sent \in Seq(RoomNames \X Bodies) /\ mqueue \in Seq(Delivered)
    BY DEF TypeInv, SenderType, QueueType, Hearing, Membership, RoomsExist
  <2>2. asked.len \in Nat /\ asked.body \in Bodies
    BY <2>1, TextIs
  <2> QED BY <2>1, <2>2, LengthsAssumption
<1>2. d \in Delivered /\ d.body = asked.body
  <2>1. "delivery" \in Tags
    BY TagsAre DEF Tags
  <2>2. d \in Texts
    BY <1>1, <2>1, TextLeft
  <2>3. d.tag = "delivery" /\ d.len = len /\ d.nl = asked.nl /\ d.body = asked.body
    BY <1>1 DEF Texts, Messages
  <2>4. Size(Message("delivery", len, NoBody)) <= ReadLimit
    BY DEF Hearing, Membership, RoomsExist
  <2> HIDE DEF d
  <2>5. Size(d) = Size(Message("delivery", len, NoBody))
    BY <2>3 DEF Size, Prefix, Message
  <2> QED BY <2>2, <2>3, <2>4, <2>5 DEF Delivered, Lines
<1>3. /\ sent' = Append(sent, <<rm, asked.body>>)
      /\ mqueue' \in {mqueue, IF member /\ home = rm THEN Append(mqueue, d) ELSE mqueue}
      /\ RoomsExist => mqueue' = IF member /\ home = rm THEN Append(mqueue, d) ELSE mqueue
  BY DEF Broadcast
<1> HIDE DEF d, len
<1>4. mqueue' \in Seq(Delivered)
  BY <1>1, <1>2, <1>3
<1>5. Reception'
  BY ReceptionKept DEF Hearing
<1>6. Membership'
  <2>1. Len(sent') >= Len(sent) /\ Len(sent) \in Nat
    BY <1>1, <1>3
  <2>2. start <= Len(sent) /\ start \in Nat /\ start' = start
    BY DEF Hearing, Membership, RoomsExist, ReceiverView, receiverVars, TypeInv, ReceiverType
  <2>3. start' <= Len(sent')
    BY <2>1, <2>2, <1>1, <1>3
  <2> QED BY <1>3, <1>4, <2>3 DEF Hearing, Membership, RoomsExist, ReceiverView, receiverVars
<1>7. /\ Len(sent') = n /\ n \in Nat /\ sent'[n] = <<rm, asked.body>>
      /\ \A k \in 1..Len(sent) : sent'[k] = sent[k]
  BY <1>1, <1>3
<1>8. \A k \in Due : sent'[k] = sent[k] /\ k < n /\ k \in Nat
  BY <1>7, DueType
<1>9. HearsTheRoom'
  <2> SUFFICES ASSUME Hears' PROVE Ranks(Heard', Due', sent')
    BY DEF HearsTheRoom, Hears, Ranks, RoomsExist
  <2>1. /\ Hears /\ home' = home /\ start' = start /\ down'["receiver"] = down["receiver"]
        /\ worker'["receiver"] = worker["receiver"] /\ out' = out /\ printed' = printed
    BY DEF Hears, ReceiverView, receiverVars, RoomsExist
  <2>2. /\ Ranks(Heard, Due, sent) /\ net["receiver"] = "open" /\ net'["receiver"] = "open"
        /\ member /\ RoomsExist
    BY <2>1 DEF Hears, Hearing, RoomsExist, HearsTheRoom, Ranks
  <2>3. Due' = {k \in start + 1..n : sent'[k][1] = home}
    BY <1>7, <2>1 DEF Due
  <2>4. /\ start \in Nat /\ Len(sent) \in Nat /\ start <= Len(sent)
        /\ Due \in SUBSET Nat /\ IsFiniteSet(Due)
    BY DueType DEF Hearing, Membership, RoomsExist
  <2>5. CASE home = rm
    <3>1. Due' = Due \cup {n}
      <4>1. n \in start + 1..n
        BY <2>4, <2>5
      <4>2. ASSUME NEW k \in start + 1..n
            PROVE  (k = n \/ k \in start + 1..Len(sent)) /\ k \in Nat
        BY <2>4
      <4>3. \A k \in start + 1..Len(sent) : sent'[k] = sent[k] /\ k \in start + 1..n
        BY <2>4, <1>7
      <4>4. sent'[n][1] = home
        BY <1>7, <2>5
      <4> QED BY <2>3, <4>1, <4>2, <4>3, <4>4 DEF Due
    <3>2. mqueue' = Append(mqueue, d) /\ d \in Texts /\ mqueue \in Seq(Texts)
      BY <1>1, <1>2, <1>3, <2>2, <2>5, LinesAre
    <3>3. BodiesOf(mqueue') = BodiesOf(mqueue) \o <<asked.body>>
      BY <3>2, <1>2, BodiesAppend
    <3>4. Heard' = Append(Heard, asked.body) /\ Heard \in Seq(Bodies)
      <4> DEFINE a == printed
                 b == BodiesOf(Deliveries(down["receiver"]))
                 c == BodiesOf(IF worker["receiver"] = "send" THEN <<out>> ELSE << >>)
                 q == BodiesOf(mqueue)
      <4>1. Heard = a \o b \o c \o q /\ Heard' = a \o b \o c \o (q \o <<asked.body>>)
        BY <2>1, <3>3 DEF Heard
      <4>2. a \in Seq(Bodies) /\ b \in Seq(Bodies) /\ q \in Seq(Bodies)
        BY <2>2, HeardIs
      <4>3. c \in Seq(Bodies)
        <5>1. << >> \in Seq(Texts) /\ <<out>> \in Seq(Texts)
          BY DEF TypeInv, ReceiverType
        <5> QED BY <5>1, BodiesType
      <4> HIDE DEF a, b, c, q
      <4>4. a \o b \in Seq(Bodies)
        BY <4>2, ConcatProperties
      <4> DEFINE e == a \o b
      <4>5. e \in Seq(Bodies)
        BY <4>4
      <4> HIDE DEF e
      <4>6. e \o c \in Seq(Bodies)
        BY <4>3, <4>5, ConcatProperties
      <4> DEFINE f == e \o c
                 x == asked.body
      <4>7. f \in Seq(Bodies) /\ x \in Bodies
        BY <4>6, <1>1
      <4> HIDE DEF f, x
      <4>8. f \o (q \o <<x>>) = Append(f \o q, x) /\ f \o q \in Seq(Bodies)
        BY <4>2, <4>7, LineQueued, ConcatProperties
      <4>9. Heard = f \o q /\ Heard' = f \o (q \o <<x>>)
        BY <4>1 DEF f, e, x
      <4> QED BY <4>8, <4>9 DEF x
    <3>5. sent'[n][2] = asked.body
      BY <1>7
    <3>6. Ranks(Append(Heard, asked.body), Due \cup {n}, sent')
      <4>1. SaysMore(Heard, asked.body, Due, n, sent, sent')
        BY <1>1, <1>7, <1>8, <2>2, <2>4, <3>4, <3>5 DEF SaysMore
      <4> QED BY <4>1, RanksMore
    <3> QED BY <3>1, <3>4, <3>6
  <2>6. CASE home # rm
    <3>1. Due' = Due
      <4>1. ASSUME NEW k \in start + 1..n
            PROVE  (k = n \/ k \in start + 1..Len(sent)) /\ k \in Nat
        BY <2>4
      <4>2. \A k \in start + 1..Len(sent) : sent'[k] = sent[k] /\ k \in start + 1..n
        BY <2>4, <1>7
      <4>3. sent'[n][1] # home
        BY <1>7, <2>6
      <4> QED BY <2>3, <4>1, <4>2, <4>3 DEF Due
    <3>2. Heard' = Heard
      BY <1>3, <2>1, <2>2, <2>6 DEF Heard
    <3> QED BY <1>8, <2>2, <3>1, <3>2, RanksKept
  <2> QED BY <2>5, <2>6
<1> QED BY <1>5, <1>6, <1>9 DEF Hearing
-----------------------------------------------------------------------------
(* What a receiver hears is kept, one group of operations after the other *)

LEMMA HearingInit == Init => Hearing
<1> SUFFICES ASSUME Init PROVE Hearing
  OBVIOUS
<1> USE EndsAre
<1>1. /\ up["receiver"] = << >> /\ down["receiver"] = << >> /\ net["receiver"] = "open"
      /\ client["receiver"] = "login" /\ worker["receiver"] = "none" /\ member = FALSE
      /\ asked = Ok /\ mqueue = << >> /\ printed = << >> /\ sent = << >> /\ start = 0
  BY DEF Init
<1>2. Reception
  BY <1>1 DEF Reception, AtReceiverLogin, AtReceiverLoginReply, AtJoin, AtJoinReply, AtListen,
              Unserved
<1>3. Membership
  <2>1. asked.tag # "sendall"
    BY <1>1, OkErr
  <2>2. mqueue \in Seq(Delivered) /\ start <= Len(sent)
    BY <1>1
  <2> QED BY <1>1, <2>1, <2>2, DeliveriesAre DEF Membership, RoomsExist
<1>4. HearsTheRoom
  BY <1>1 DEF HearsTheRoom
<1> QED BY <1>2, <1>3, <1>4 DEF Hearing

(* What a worker of a sender receives: a request, or what it refuses. *)
LEMMA HandlesRequest ==
  ASSUME TypeInv, Conversation, worker["sender"] = "receive", WorkerReceives("sender")
  PROVE  \/ Incoming("sender") = Eof(NoBody) \/ Incoming("sender") = LoginMessage
         \/ Incoming("sender") = asked /\ Request(asked)
<1>1. CASE up["sender"] = << >>
  BY <1>1, SenderWorkerSeesEnd
<1>2. CASE up["sender"] = <<LoginMessage>>
  BY <1>2, SenderWorkerReceives, LoginFits
<1>3. CASE up["sender"] = <<asked>> /\ Request(asked)
  BY <1>3, SenderWorkerReceives DEF Request
<1>4. \/ up["sender"] = << >> \/ up["sender"] = <<LoginMessage>>
      \/ up["sender"] = <<asked>> /\ Request(asked)
  <2>1. client["sender"] \in {"login", "loginReply", "input", "reply", "exited"}
    BY DEF Conversation
  <2> QED BY <2>1 DEF Conversation, AtLogin, AtLoginReply, AtInput, AtReply, AtExit, Quiet
<1> QED BY <1>1, <1>2, <1>3, <1>4

LEMMA HearingHandlers ==
  ASSUME TypeInv, TypeInv', Conversation, Hearing, UNCHANGED server,
         HandleJoin \/ HandleLeave \/ HandleQuit \/ HandleText
  PROVE  Hearing'
<1> USE EndsAre
<1>1. /\ worker["sender"] = "receive" /\ WorkerReceives("sender")
      /\ UNCHANGED <<down, net, client, asked, receiverVars, main>>
  BY DEF HandleJoin, HandleLeave, HandleQuit, HandleText, Handles, server
<1>2. up'["receiver"] = up["receiver"]
  BY <1>1 DEF WorkerReceives, TypeInv, StreamType
<1>3. worker'["receiver"] = worker["receiver"]
  BY DEF HandleJoin, HandleLeave, HandleQuit, HandleText, WorkerGoto, TypeInv, PlaceType
<1>4. UNCHANGED ReceiverView
  BY <1>1, <1>2, <1>3 DEF ReceiverView
<1>5. CASE UNCHANGED <<mqueue, sent>>
  BY <1>1, <1>4, <1>5, HearingKept
<1>6. CASE ~UNCHANGED <<mqueue, sent>>
  <2>1. /\ Incoming("sender").tag \in {"sendall", "none"} /\ Incoming("sender").len # 0
        /\ Broadcast(Incoming("sender"))
    BY <1>6 DEF HandleJoin, HandleLeave, HandleQuit, HandleText, Handles
  <2>2. Incoming("sender") # Eof(NoBody) /\ Incoming("sender") # LoginMessage
    BY <2>1, EofType, LoginFits
  <2>3. Incoming("sender") = asked /\ Request(asked)
    BY <1>1, <2>2, HandlesRequest
  <2>4. asked.tag = "sendall" /\ asked.nl /\ checkStyle(asked)
    BY <2>1, <2>3 DEF Request
  <2> QED BY <1>1, <1>4, <2>1, <2>3, <2>4, HearingBroadcast
<1> QED BY <1>5, <1>6

LEMMA HearingRequest ==
  ASSUME TypeInv, Hearing, DeliveriesFit, UNCHANGED server, SenderRequest
  PROVE  Hearing'
<1> USE EndsAre
<1>1. UNCHANGED <<down, worker, receiverVars, mqueue, sent, main>> /\ requests < MaxRequests
  BY DEF SenderRequest, server
<1>2. UNCHANGED ReceiverView
  <2>1. up'["receiver"] = up["receiver"] /\ net'["receiver"] = net["receiver"]
        /\ client'["receiver"] = client["receiver"]
    BY DEF SenderRequest, ClientSends, ClientGoto, ClientExits, TypeInv, StreamType, PlaceType
  <2> QED BY <1>1, <2>1 DEF ReceiverView
<1>3. Reception'
  BY <1>2, ReceptionKept DEF Hearing
<1>4. asked'.tag = "sendall" /\ checkStyle(asked') =>
        Size(Message("delivery", NamesLength + asked'.len, NoBody)) <= ReadLimit
  <2> SUFFICES ASSUME asked'.tag = "sendall", checkStyle(asked')
               PROVE Size(Message("delivery", NamesLength + asked'.len, NoBody)) <= ReadLimit
    OBVIOUS
  <2>1. requests \in 0..MaxRequests /\ asked' \in Typed
    BY DEF SenderRequest, TypeInv, SenderType
  <2>2. PICK len \in DataLengths : asked'.len = len
    BY <1>1, <2>1, TypedType
  <2>3. len \in Nat /\ len <= MAX_LEN
    BY <2>2, LengthsAssumption DEF checkStyle
  <2>4. ~(len > MAX_LEN)
    BY <2>3, MaxLenAssumption
  <2> QED BY <2>2, <2>4 DEF DeliveriesFit
<1>5. Membership'
  BY <1>1, <1>2, <1>4 DEF Hearing, Membership, RoomsExist, ReceiverView, receiverVars
<1>6. Heard' = Heard /\ (Hears' => Hears)
  BY <1>1, <1>2 DEF Heard, Hears, ReceiverView, receiverVars, RoomsExist
<1>7. HearsTheRoom'
  BY <1>1, <1>6, HearsKept DEF Hearing, receiverVars
<1> QED BY <1>3, <1>5, <1>7 DEF Hearing

LEMMA HearingSender ==
  ASSUME TypeInv, Hearing, UNCHANGED server,
         \/ SenderLogin \/ SenderLoggedIn \/ SenderReply
         \/ SenderWorkerLogin \/ SenderWorkerReply \/ LastReply("sender", answer)
         \/ SenderWorkerFails
         \/ ResetArrives("sender") \/ ClientKilled("sender") \/ ClientFails("sender")
  PROVE  Hearing'
<1> USE EndsAre
<1>1. UNCHANGED <<asked, receiverVars, mqueue, sent, main>>
  BY DEF SenderLogin, SenderLoggedIn, SenderReply, SenderWorkerLogin, SenderWorkerReply,
         LastReply, SenderWorkerFails, ResetArrives, ClientKilled, ClientFails,
         senderVars, server
<1>2. up'["receiver"] = up["receiver"] /\ down'["receiver"] = down["receiver"]
  BY DEF SenderLogin, SenderLoggedIn, SenderReply, SenderWorkerLogin, SenderWorkerReply,
         LastReply, SenderWorkerFails, ResetArrives, ClientKilled, ClientFails,
         ClientSends, ClientReceives, WorkerSends, WorkerReceives, streams, TypeInv, StreamType
<1>3. net'["receiver"] = net["receiver"]
  BY DEF SenderLogin, SenderLoggedIn, SenderReply, SenderWorkerLogin, SenderWorkerReply,
         LastReply, SenderWorkerFails, ResetArrives, ClientKilled, ClientFails,
         ClientExits, WorkerSends, TypeInv, PlaceType
<1>4. client'["receiver"] = client["receiver"]
  BY DEF SenderLogin, SenderLoggedIn, SenderReply, SenderWorkerLogin, SenderWorkerReply,
         LastReply, SenderWorkerFails, ResetArrives, ClientKilled, ClientFails,
         ClientExits, ClientGoto, TypeInv, PlaceType
<1>5. worker'["receiver"] = worker["receiver"]
  BY DEF SenderLogin, SenderLoggedIn, SenderReply, SenderWorkerLogin, SenderWorkerReply,
         LastReply, SenderWorkerFails, ResetArrives, ClientKilled, ClientFails,
         WorkerGoto, TypeInv, PlaceType
<1>6. UNCHANGED ReceiverView
  BY <1>1, <1>2, <1>3, <1>4, <1>5 DEF ReceiverView
<1> QED BY <1>1, <1>6, HearingKept

LEMMA HearingMainThread ==
  ASSUME TypeInv, Hearing, handle_client_requests
  PROVE  Hearing'
<1> USE EndsAre
<1>1. UNCHANGED <<up, down, net, client, asked, receiverVars, mqueue, sent>>
  BY DEF handle_client_requests, AcceptFails, Accept, ThreadFails, senderVars, streams
<1>2. UNCHANGED <<home, member, out, start, printed>>
  BY <1>1 DEF receiverVars
<1>3. CASE AcceptFails
  <2>1. main' = "exited" /\ worker'["receiver"] = "exited"
    BY <1>3 DEF AcceptFails
  <2>2. Reception'
    BY <1>1, <1>2, <2>1
       DEF Hearing, Reception, AtReceiverLogin, AtReceiverLoginReply, AtJoin, AtJoinReply,
           AtListen, ReceiverJoin, Unserved
  <2>3. Membership'
    BY <1>1, <1>2, <2>1 DEF Hearing, Membership, RoomsExist
  <2>4. HearsTheRoom'
    BY <2>1 DEF HearsTheRoom, RoomsExist
  <2> QED BY <2>2, <2>3, <2>4 DEF Hearing
<1>4. CASE Accept("receiver") \/ ThreadFails("receiver")
  <2>1. worker["receiver"] = "none"
        /\ worker'["receiver"] \in {"login", "refused"}
    BY <1>4, ReceiverWorkerGoes DEF Accept, ThreadFails, ClientAccepted
  <2>2. ~member
    BY <2>1 DEF Hearing, Membership, RoomsExist
  <2>3. Reception'
    BY <1>1, <1>2, <2>1
       DEF Hearing, Reception, AtReceiverLogin, AtReceiverLoginReply, AtJoin, AtJoinReply,
           AtListen, ReceiverJoin, Unserved
  <2>4. Membership'
    BY <1>1, <1>2, <2>1, <2>2 DEF Hearing, Membership, RoomsExist
  <2>5. HearsTheRoom'
    BY <1>2, <2>2 DEF HearsTheRoom
  <2> QED BY <2>3, <2>4, <2>5 DEF Hearing
<1>5. CASE Accept("sender") \/ ThreadFails("sender")
  <2>1. worker'["receiver"] = worker["receiver"] /\ main = "accepts"
    BY <1>5 DEF Accept, ThreadFails, ClientAccepted, WorkerGoto, TypeInv, PlaceType
  <2>2. main' # "exited"
    BY <1>5, <2>1 DEF Accept, ThreadFails, server
  <2>3. Reception'
    BY <1>1, <1>2, <2>1
       DEF Hearing, Reception, AtReceiverLogin, AtReceiverLoginReply, AtJoin, AtJoinReply,
           AtListen, ReceiverJoin
  <2>4. Membership'
    BY <1>1, <1>2, <2>1 DEF Hearing, Membership, RoomsExist
  <2>5. Heard' = Heard /\ (Hears' => Hears)
    BY <1>1, <1>2, <2>1 DEF Heard, Hears, RoomsExist
  <2>6. HearsTheRoom'
    BY <1>1, <1>2, <2>5, HearsKept DEF Hearing
  <2> QED BY <2>3, <2>4, <2>6 DEF Hearing
<1> QED BY <1>3, <1>4, <1>5 DEF handle_client_requests, Ends

LEMMA HearingExits ==
  ASSUME TypeInv, Hearing, UNCHANGED server,
         ResetArrives("receiver") \/ ClientKilled("receiver") \/ ClientFails("receiver")
  PROVE  Hearing'
<1> USE EndsAre
<1>1. UNCHANGED <<up, down, worker, asked, receiverVars, mqueue, sent, main>>
  BY DEF ResetArrives, ClientKilled, ClientFails, streams, senderVars, server
<1>2. UNCHANGED <<home, member, out, start, printed>>
  BY <1>1 DEF receiverVars
<1>3. net'["receiver"] # "open" /\ client'["receiver"] = "exited"
  <2>1. CASE ResetArrives("receiver")
    <3>1. /\ client' = client /\ net["receiver"] = "probed"
          /\ net' = [net EXCEPT !["receiver"] = "reset"]
      BY <2>1 DEF ResetArrives
    <3>2. client["receiver"] = "exited"
      BY <3>1 DEF Hearing, Reception
    <3> QED BY <3>1, <3>2 DEF TypeInv, PlaceType
  <2>2. CASE ClientExits("receiver", down["receiver"])
    <3>1. client'["receiver"] = "exited"
      BY <2>2, ReceiverGoes DEF ClientExits
    <3>2. net'["receiver"] # "open"
      BY <2>2 DEF ClientExits, TypeInv, PlaceType
    <3> QED BY <3>1, <3>2
  <2> QED BY <2>1, <2>2 DEF ClientKilled, ClientFails
<1>4. Reception'
  BY <1>3 DEF Reception, AtReceiverLogin, AtReceiverLoginReply, AtJoin, AtJoinReply, AtListen
<1>5. Membership'
  BY <1>1, <1>2, <1>3 DEF Hearing, Membership, RoomsExist
<1>6. HearsTheRoom'
  BY <1>3 DEF HearsTheRoom
<1> QED BY <1>4, <1>5, <1>6 DEF Hearing

LEMMA HearingAsks ==
  ASSUME TypeInv, Hearing, UNCHANGED server, ReceiverAsks
  PROVE  Hearing'
<1> USE EndsAre
<1>1. UNCHANGED <<down, net, worker, asked, home, member, out, start, printed, mqueue, sent, main>>
  BY DEF ReceiverAsks, senderVars, receiverVars, server
<1>2. Membership' /\ HearsTheRoom'
  <2>1. Membership'
    BY <1>1 DEF Hearing, Membership, RoomsExist
  <2>2. Heard' = Heard
    BY <1>1 DEF Heard
  <2>3. HearsTheRoom'
    BY <1>1, <2>2, HearsKept DEF Hearing, Hears, RoomsExist
  <2> QED BY <2>1, <2>3
<1>3. CASE client["receiver"] = "login"
  <2>1. ClientSends("receiver", ReceiverLogin) /\ ClientGoto("receiver", "loginReply")
    BY <1>3 DEF ReceiverAsks, ReceiverLogin
  <2>2. up["receiver"] = << >> /\ down["receiver"] = << >> /\ worker["receiver"] \in Unserved
    BY <1>3 DEF Hearing, Reception, AtReceiverLogin
  <2>3. up'["receiver"] = <<ReceiverLogin>> /\ client'["receiver"] = "loginReply"
    BY <2>1, <2>2, ReceiverFits, ReceiverSends, ReceiverGoes
  <2>4. Reception'
    BY <1>1, <1>3, <2>2, <2>3
       DEF Hearing, Reception, AtReceiverLogin, AtReceiverLoginReply, AtJoin, AtJoinReply, AtListen
  <2> QED BY <1>2, <2>4 DEF Hearing
<1>4. CASE client["receiver"] = "join"
  <2>1. ClientSends("receiver", ReceiverJoin) /\ ClientGoto("receiver", "joinReply")
    BY <1>4 DEF ReceiverAsks, ReceiverJoin
  <2>2. up["receiver"] = << >> /\ down["receiver"] = << >> /\ worker["receiver"] \in {"join", "exited"}
    BY <1>4 DEF Hearing, Reception, AtJoin
  <2>3. up'["receiver"] = <<ReceiverJoin>> /\ client'["receiver"] = "joinReply"
    BY <2>1, <2>2, ReceiverFits, ReceiverSends, ReceiverGoes
  <2>4. ReceiverJoin' = ReceiverJoin
    BY <1>1 DEF ReceiverJoin
  <2>5. Reception'
    BY <1>1, <1>4, <2>2, <2>3, <2>4
       DEF Hearing, Reception, AtReceiverLogin, AtReceiverLoginReply, AtJoin, AtJoinReply, AtListen
  <2> QED BY <1>2, <2>5 DEF Hearing
<1> QED BY <1>3, <1>4 DEF ReceiverAsks

LEMMA HearingAnswered ==
  ASSUME TypeInv, Hearing, UNCHANGED server, ReceiverAnswered
  PROVE  Hearing'
<1> USE EndsAre
<1>1. UNCHANGED <<up, net, worker, asked, home, member, out, start, printed, mqueue, sent, main>>
  BY DEF ReceiverAnswered, senderVars, receiverVars, server
<1>2. client["receiver"] # "exited" /\ net["receiver"] = "open" /\ ClientReceives("receiver")
  BY DEF ReceiverAnswered, Hearing, Reception
<1>3. down["receiver"] # << >> /\ down'["receiver"] = Tail(down["receiver"])
  BY <1>2, StreamDown, ReceiverReceives DEF Hearing
<1>4. ASSUME Reception', Deliveries(down'["receiver"]) = Deliveries(down["receiver"])
      PROVE  Hearing'
  <2>1. Membership'
    BY <1>1, <1>4 DEF Hearing, Membership, RoomsExist
  <2>2. Heard' = Heard
    BY <1>1, <1>4 DEF Heard
  <2>3. HearsTheRoom'
    BY <1>1, <2>2, HearsKept DEF Hearing, Hears, RoomsExist
  <2> QED BY <1>4, <2>1, <2>3 DEF Hearing
<1>5. CASE client["receiver"] = "loginReply"
  <2>1. client'["receiver"] = "join"
    BY <1>5, ReceiverGoes DEF ReceiverAnswered
  <2>2. /\ up["receiver"] = << >> /\ down["receiver"] = <<Ok>>
        /\ worker["receiver"] \in {"join", "exited"}
    BY <1>3, <1>5 DEF Hearing, Reception, AtReceiverLoginReply
  <2>3. down'["receiver"] = << >>
    BY <1>3, <2>2
  <2>4. Deliveries(down'["receiver"]) = Deliveries(down["receiver"])
    BY <2>2, <2>3, DeliveriesAre
  <2>5. Reception'
    BY <1>1, <1>2, <2>1, <2>2, <2>3
       DEF Hearing, Reception, AtReceiverLogin, AtReceiverLoginReply, AtJoin, AtJoinReply, AtListen
  <2> QED BY <2>4, <2>5, <1>4
<1>6. CASE client["receiver"] = "joinReply"
  <2>1. client'["receiver"] = "listen"
    BY <1>6, ReceiverGoes DEF ReceiverAnswered
  <2>2. /\ up["receiver"] = << >>
        /\ Head(down["receiver"]) = Ok /\ Tail(down["receiver"]) \in Seq(Delivered)
        /\ worker["receiver"] \in {"add", "dequeue", "send", "exited", "stuck"}
    BY <1>3, <1>6 DEF Hearing, Reception, AtJoinReply
  <2>3. down["receiver"] \in Seq(Lines)
    BY <1>2, StreamDown DEF Hearing
  <2>4. Deliveries(down'["receiver"]) = Deliveries(down["receiver"])
    BY <1>3, <2>2, <2>3, DeliveriesAre
  <2>5. Reception'
    BY <1>1, <1>2, <1>3, <2>1, <2>2
       DEF Hearing, Reception, AtReceiverLogin, AtReceiverLoginReply, AtJoin, AtJoinReply, AtListen
  <2> QED BY <2>4, <2>5, <1>4
<1> QED BY <1>5, <1>6 DEF ReceiverAnswered

LEMMA HearingPrints ==
  ASSUME TypeInv, Hearing, UNCHANGED server, ReceiverPrints
  PROVE  Hearing'
<1> USE EndsAre
<1> DEFINE d == down["receiver"]
           m == Head(d)
<1>1. /\ client["receiver"] = "listen" /\ net["receiver"] = "open" /\ ClientReceives("receiver")
      /\ up["receiver"] = << >> /\ d \in Seq(Delivered)
      /\ worker["receiver"] \in {"add", "dequeue", "send", "exited", "stuck"}
  BY DEF ReceiverPrints, Hearing, Reception, AtListen
<1>2. d # << >> /\ Received(d) = m /\ down'["receiver"] = Tail(d)
  BY <1>1, LinesAre, ReceiverReceives
<1>3. m \in Delivered /\ Tail(d) \in Seq(Delivered)
  BY <1>1, <1>2
<1>4. checkStyle(m) /\ m.body \in Bodies
  BY <1>3, DeliveredIs
<1>5. /\ printed' = Append(printed, m.body)
      /\ UNCHANGED <<up, worker, asked, home, member, out, start, mqueue, sent, client, net, main>>
  BY <1>2, <1>4 DEF ReceiverPrints, senderVars, server
<1>6. Deliveries(d) = d /\ Deliveries(down'["receiver"]) = Tail(d)
  BY <1>1, <1>2, <1>3, DeliveriesAre
<1>7. member
  BY <1>1, <1>2, <1>6 DEF Hearing, Membership, RoomsExist
<1>8. Reception'
  BY <1>1, <1>2, <1>3, <1>5
     DEF Hearing, Reception, AtReceiverLogin, AtReceiverLoginReply, AtJoin, AtJoinReply, AtListen
<1>9. Membership'
  BY <1>5, <1>7 DEF Hearing, Membership, RoomsExist
<1>10. Heard' = Heard
  <2> DEFINE a == printed
             b == BodiesOf(Tail(d))
             c == BodiesOf(IF worker["receiver"] = "send" THEN <<out>> ELSE << >>)
             q == BodiesOf(mqueue)
             x == m.body
  <2>1. BodiesOf(d) = <<x>> \o b /\ b \in Seq(Bodies)
    <3>1. d \in Seq(Texts) /\ Tail(d) \in Seq(Texts)
      BY <1>1, <1>3, LinesAre
    <3> QED BY <3>1, <1>2, BodiesHead, BodiesType
  <2>2. Heard = a \o (<<x>> \o b) \o c \o q
    BY <1>6, <2>1 DEF Heard
  <2>3. Heard' = Append(a, x) \o b \o c \o q
    BY <1>5, <1>6 DEF Heard
  <2>4. a \in Seq(Bodies) /\ x \in Bodies
    BY <1>4 DEF TypeInv, ReceiverType
  <2> HIDE DEF a, b, c, q, x
  <2>5. Append(a, x) \o b = a \o (<<x>> \o b)
    BY <2>1, <2>4, LinePrinted
  <2> QED BY <2>2, <2>3, <2>5
<1>11. HearsTheRoom'
  BY <1>5, <1>10, HearsKept DEF Hearing, Hears, RoomsExist
<1> QED BY <1>8, <1>9, <1>11 DEF Hearing

LEMMA HearingWorkerReads ==
  ASSUME TypeInv, Hearing, UNCHANGED server, ReceiverWorkerReads
  PROVE  Hearing'
<1> USE EndsAre
<1>1. /\ UNCHANGED <<down, net, client, asked, home, member, out, start, printed, mqueue, sent, main>>
      /\ worker["receiver"] \in {"login", "join"} /\ WorkerReceives("receiver")
  BY DEF ReceiverWorkerReads, senderVars, receiverVars, server
<1>2. ~member
  BY <1>1 DEF Hearing, Membership, RoomsExist
<1>3. worker'["receiver"] = CASE Incoming("receiver").tag = "rlogin" -> "loginReply"
                              [] Incoming("receiver").tag = "join"   -> "joinReply"
                              [] ~checkStyle(Incoming("receiver"))   -> "lastReply"
                              [] OTHER                               -> "exited"
  BY ReceiverWorkerGoes DEF ReceiverWorkerReads
<1>4. Membership'
  BY <1>1, <1>2, <1>3 DEF Hearing, Membership, RoomsExist
<1>5. HearsTheRoom'
  BY <1>1, <1>2 DEF HearsTheRoom
<1>6. Reception'
  <2>1. CASE client["receiver"] = "exited"
    BY <1>1, <2>1
       DEF Hearing, Reception, AtReceiverLogin, AtReceiverLoginReply, AtJoin, AtJoinReply, AtListen
  <2>2. CASE client["receiver"] # "exited"
    <3>1. net["receiver"] = "open"
      BY <2>2 DEF Hearing, Reception
    <3>2. up["receiver"] # << >>
      BY <1>1, <3>1, ReceiverWorkerSeesEnd
    <3>3. \/ /\ client["receiver"] = "loginReply" /\ up["receiver"] = <<ReceiverLogin>>
             /\ down["receiver"] = << >>
          \/ /\ client["receiver"] = "joinReply" /\ up["receiver"] = <<ReceiverJoin>>
             /\ down["receiver"] = << >>
      BY <2>2, <3>2
         DEF Hearing, Reception, AtReceiverLogin, AtReceiverLoginReply, AtJoin, AtJoinReply, AtListen
    <3>4. CASE client["receiver"] = "loginReply" /\ up["receiver"] = <<ReceiverLogin>>
               /\ down["receiver"] = << >>
      <4>1. up'["receiver"] = << >> /\ Incoming("receiver") = ReceiverLogin
        BY <1>1, <3>4, ReceiverFits, ReceiverWorkerReceives
      <4>2. worker'["receiver"] = "loginReply"
        BY <1>3, <4>1, ReceiverFits, ReceiverStyle
      <4> QED BY <1>1, <3>1, <3>4, <4>1, <4>2
              DEF Reception, AtReceiverLogin, AtReceiverLoginReply, AtJoin, AtJoinReply, AtListen
    <3>5. CASE client["receiver"] = "joinReply" /\ up["receiver"] = <<ReceiverJoin>>
               /\ down["receiver"] = << >>
      <4>1. up'["receiver"] = << >> /\ Incoming("receiver") = ReceiverJoin
        BY <1>1, <3>5, ReceiverFits, ReceiverWorkerReceives
      <4>2. worker'["receiver"] = "joinReply"
        BY <1>3, <4>1, ReceiverFits, ReceiverStyle
      <4> QED BY <1>1, <3>1, <3>5, <4>1, <4>2
              DEF Reception, AtReceiverLogin, AtReceiverLoginReply, AtJoin, AtJoinReply, AtListen
    <3> QED BY <3>3, <3>4, <3>5
  <2> QED BY <2>1, <2>2
<1> QED BY <1>4, <1>5, <1>6 DEF Hearing

LEMMA HearingWorkerAnswers ==
  ASSUME TypeInv, Hearing, UNCHANGED server, ReceiverWorkerAnswers
  PROVE  Hearing'
<1> USE EndsAre
<1>1. /\ UNCHANGED <<up, client, asked, home, member, out, start, printed, mqueue, sent, main>>
      /\ worker["receiver"] \in {"loginReply", "joinReply"} /\ WorkerSends("receiver", Ok)
  BY DEF ReceiverWorkerAnswers, senderVars, receiverVars, server
<1>2. ~member
  BY <1>1 DEF Hearing, Membership, RoomsExist
<1>3. worker'["receiver"] = IF worker["receiver"] = "loginReply" THEN "join" ELSE "add"
  BY ReceiverWorkerGoes DEF ReceiverWorkerAnswers
<1>4. HearsTheRoom'
  BY <1>1, <1>2 DEF HearsTheRoom
<1>5. CASE net["receiver"] # "open"
  <2>1. net'["receiver"] # "open"
    BY <1>1, <1>5, ReceiverWorkerProbes
  <2>2. client["receiver"] = "exited"
    BY <1>5 DEF Hearing, Reception
  <2>3. Reception'
    BY <1>1, <2>1, <2>2
       DEF Reception, AtReceiverLogin, AtReceiverLoginReply, AtJoin, AtJoinReply, AtListen
  <2>4. Membership'
    BY <1>1, <1>2, <1>3, <2>1 DEF Hearing, Membership, RoomsExist
  <2> QED BY <1>4, <2>3, <2>4 DEF Hearing
<1>6. CASE net["receiver"] = "open"
  <2>1. /\ up["receiver"] = << >> /\ down["receiver"] = << >>
        /\ \/ client["receiver"] = "loginReply" /\ worker["receiver"] = "loginReply"
           \/ client["receiver"] = "joinReply" /\ worker["receiver"] = "joinReply"
    BY <1>1, <1>6
       DEF Hearing, Reception, AtReceiverLogin, AtReceiverLoginReply, AtJoin, AtJoinReply,
           AtListen, Unserved
  <2>2. down'["receiver"] = Append(down["receiver"], Ok) /\ net' = net
    BY <1>1, <1>6, StreamDown, LinesAre, ReceiverWorkerSends DEF Hearing
  <2>3. down'["receiver"] = <<Ok>>
    BY <2>1, <2>2
  <2>4. <<Ok>> # << >> /\ Head(<<Ok>>) = Ok /\ Tail(<<Ok>>) = << >> /\ << >> \in Seq(Delivered)
    OBVIOUS
  <2>5. Tail(<<Ok>>) \in Seq(Delivered)
    BY <2>4
  <2>6. Reception'
    BY <1>1, <1>3, <1>6, <2>1, <2>2, <2>3, <2>4, <2>5
       DEF Reception, AtReceiverLogin, AtReceiverLoginReply, AtJoin, AtJoinReply, AtListen
  <2>7. Membership'
    BY <1>1, <1>2, <1>3, <2>3, DeliveriesAre DEF Hearing, Membership, RoomsExist
  <2> QED BY <1>4, <2>6, <2>7 DEF Hearing
<1> QED BY <1>5, <1>6

LEMMA HearingAdded ==
  ASSUME TypeInv, Hearing, UNCHANGED server, AddMember
  PROVE  Hearing'
<1> USE EndsAre
<1>1. /\ UNCHANGED <<up, down, net, client, asked, home, out, printed, mqueue, sent, main>>
      /\ worker["receiver"] = "add" /\ start' = Len(sent)
      /\ member' = TRUE \/ (~RoomsExist /\ member' = member)
  BY DEF AddMember, streams, senderVars, server
<1>2. worker'["receiver"] = "dequeue"
  BY ReceiverWorkerGoes DEF AddMember
<1>3. ~member
  BY <1>1 DEF Hearing, Membership, RoomsExist
<1>4. Len(sent) \in Nat
  BY DueType
<1>5. Reception'
  BY <1>1, <1>2
     DEF Hearing, Reception, AtReceiverLogin, AtReceiverLoginReply, AtJoin, AtJoinReply, AtListen,
         Unserved
<1>6. start' <= Len(sent')
  BY <1>1, <1>4
<1>7. Membership'
  BY <1>1, <1>2, <1>6 DEF Hearing, Membership, RoomsExist
<1>8. HearsTheRoom'
  <2> SUFFICES ASSUME Hears' PROVE Ranks(Heard', Due', sent')
    BY DEF HearsTheRoom, Hears, Ranks, RoomsExist
  <2>1. net["receiver"] = "open"
    BY <1>1 DEF Hears, RoomsExist
  <2>2. /\ printed = << >> /\ mqueue = << >> /\ Deliveries(down["receiver"]) = << >>
    BY <1>3, <2>1 DEF Hearing, Membership, RoomsExist
  <2>3. (IF worker'["receiver"] = "send" THEN <<out'>> ELSE << >>) = << >>
    BY <1>2
  <2>4. Heard' = << >> \o << >> \o << >> \o << >>
    BY <1>1, <2>2, <2>3, BodiesNone DEF Heard
  <2>5. Len(Heard') = 0
    BY <2>4
  <2>6. Due' = {}
    <3>1. \A k \in Len(sent) + 1..Len(sent) : FALSE
      BY <1>4
    <3> QED BY <1>1, <3>1 DEF Due
  <2> QED BY <2>5, <2>6, FS_EmptySet DEF Ranks
<1> QED BY <1>5, <1>7, <1>8 DEF Hearing

LEMMA HearingDequeued ==
  ASSUME TypeInv, Hearing, UNCHANGED server, Dequeue
  PROVE  Hearing'
<1> USE EndsAre
<1>1. /\ UNCHANGED <<up, down, net, client, asked, home, member, start, printed, sent, main>>
      /\ worker["receiver"] = "dequeue" /\ mqueue # << >>
      /\ out' = Head(mqueue) /\ mqueue' = Tail(mqueue)
  BY DEF Dequeue, streams, senderVars, server
<1>2. worker'["receiver"] = "send"
  BY ReceiverWorkerGoes DEF Dequeue
<1>3. mqueue \in Seq(Delivered)
  BY DEF Hearing, Membership, RoomsExist
<1>4. Head(mqueue) \in Delivered /\ Tail(mqueue) \in Seq(Delivered)
  BY <1>1, <1>3
<1>5. member
  BY <1>1 DEF Hearing, Membership, RoomsExist
<1>6. Reception'
  BY <1>1, <1>2
     DEF Hearing, Reception, AtReceiverLogin, AtReceiverLoginReply, AtJoin, AtJoinReply, AtListen,
         Unserved
<1>7. Membership'
  BY <1>1, <1>2, <1>4, <1>5 DEF Hearing, Membership, RoomsExist
<1>8. ASSUME net["receiver"] = "open" PROVE Heard' = Heard
  <2> DEFINE a == printed
             b == BodiesOf(Deliveries(down["receiver"]))
             q == BodiesOf(Tail(mqueue))
             x == Head(mqueue).body
  <2>1. BodiesOf(mqueue) = <<x>> \o q /\ q \in Seq(Bodies) /\ x \in Bodies
    <3>1. mqueue \in Seq(Texts) /\ Tail(mqueue) \in Seq(Texts)
      BY <1>3, <1>4, LinesAre
    <3> QED BY <3>1, <1>1, <1>4, DeliveredIs, BodiesHead, BodiesType
  <2>2. Heard = a \o b \o << >> \o (<<x>> \o q)
    <3>1. (IF worker["receiver"] = "send" THEN <<out>> ELSE << >>) = << >>
      BY <1>1
    <3> QED BY <2>1, <3>1, BodiesNone DEF Heard
  <2>3. Heard' = a \o b \o <<x>> \o q
    <3>1. (IF worker'["receiver"] = "send" THEN <<out'>> ELSE << >>) = <<Head(mqueue)>>
      BY <1>1, <1>2
    <3>2. BodiesOf(<<Head(mqueue)>>) = <<x>>
      <4>1. Append(<< >>, Head(mqueue)) = <<Head(mqueue)>> /\ << >> \o <<x>> = <<x>>
        OBVIOUS
      <4>2. Head(mqueue) \in Texts
        BY <1>4, DeliveredIs
      <4>3. BodiesOf(Append(<< >>, Head(mqueue))) = BodiesOf(<< >>) \o <<x>>
        BY <4>2, BodiesNone, BodiesAppend
      <4> QED BY <4>1, <4>3, BodiesNone
    <3> QED BY <1>1, <3>1, <3>2 DEF Heard
  <2>4. a \in Seq(Bodies) /\ b \in Seq(Bodies)
    BY <1>8, HeardIs
  <2> DEFINE f == a \o b
  <2>5. f \in Seq(Bodies)
    BY <2>4, ConcatProperties
  <2> HIDE DEF a, b, q, x, f
  <2>6. f \o <<x>> \o q = f \o << >> \o (<<x>> \o q)
    BY <2>1, <2>5, LineTaken
  <2> QED BY <2>2, <2>3, <2>6 DEF f
<1>9. HearsTheRoom'
  BY <1>1, <1>8, HearsKept DEF Hearing, Hears, RoomsExist
<1> QED BY <1>6, <1>7, <1>9 DEF Hearing

LEMMA HearingDelivered ==
  ASSUME TypeInv, Hearing, UNCHANGED server, Deliver
  PROVE  Hearing'
<1> USE EndsAre
<1> DEFINE d == down["receiver"]
<1>1. /\ UNCHANGED <<up, client, asked, home, member, out, start, printed, mqueue, sent, main>>
      /\ worker["receiver"] = "send" /\ WorkerSends("receiver", out)
  BY DEF Deliver, senderVars, receiverVars, server
<1>2. worker'["receiver"] = "dequeue"
  BY ReceiverWorkerGoes DEF Deliver
<1>3. out \in Delivered /\ member
  BY <1>1 DEF Hearing, Membership, RoomsExist
<1>4. Membership'
  BY <1>1, <1>2, <1>3 DEF Hearing, Membership, RoomsExist
<1>5. CASE net["receiver"] # "open"
  <2>1. net'["receiver"] # "open"
    BY <1>1, <1>5, ReceiverWorkerProbes
  <2>2. client["receiver"] = "exited"
    BY <1>5 DEF Hearing, Reception
  <2>3. Reception'
    BY <1>1, <2>1, <2>2
       DEF Reception, AtReceiverLogin, AtReceiverLoginReply, AtJoin, AtJoinReply, AtListen
  <2>4. HearsTheRoom'
    BY <2>1 DEF HearsTheRoom
  <2> QED BY <1>4, <2>3, <2>4 DEF Hearing
<1>6. ASSUME net["receiver"] = "open", Reception',
             Deliveries(down'["receiver"]) = Append(Deliveries(d), out)
      PROVE  Hearing'
  <2> DEFINE a == printed
             b == BodiesOf(Deliveries(d))
             q == BodiesOf(mqueue)
             x == out.body
  <2>1. BodiesOf(Deliveries(down'["receiver"])) = b \o <<x>>
    <3>1. Deliveries(d) \in Seq(Texts) /\ out \in Texts
      BY <1>3, <1>6, StreamDown, LinesAre, DeliveredIs DEF Hearing
    <3> QED BY <3>1, <1>6, BodiesAppend
  <2>2. /\ a \in Seq(Bodies) /\ b \in Seq(Bodies) /\ x \in Bodies
        /\ Heard = a \o b \o <<x>> \o q
    BY <1>1, <1>6, HeardIs
  <2>3. Heard' = a \o (b \o <<x>>) \o << >> \o q
    <3>1. (IF worker'["receiver"] = "send" THEN <<out'>> ELSE << >>) = << >>
      BY <1>2
    <3> QED BY <1>1, <2>1, <3>1, BodiesNone DEF Heard
  <2> HIDE DEF a, b, q, x
  <2>4. a \o (b \o <<x>>) \o << >> = a \o b \o <<x>>
    BY <2>2, LineDelivered
  <2>5. Heard' = Heard
    BY <2>2, <2>3, <2>4
  <2>6. HearsTheRoom'
    BY <1>1, <1>3, <1>6, <2>5, HearsKept DEF Hearing, Hears, RoomsExist
  <2> QED BY <1>4, <1>6, <2>6 DEF Hearing
<1>7. CASE net["receiver"] = "open"
  <2>1. d \in Seq(Lines) /\ Deliveries(d) \in Seq(Delivered)
    BY <1>7, StreamDown DEF Hearing
  <2>2. down'["receiver"] = Append(d, out) /\ net' = net
    BY <1>1, <1>3, <1>7, <2>1, LinesAre, ReceiverWorkerSends
  <2>3. /\ up["receiver"] = << >>
        /\ \/ /\ client["receiver"] = "joinReply"
              /\ d # << >> /\ Head(d) = Ok /\ Tail(d) \in Seq(Delivered)
           \/ client["receiver"] = "listen" /\ d \in Seq(Delivered)
    BY <1>1, <1>7
       DEF Hearing, Reception, AtReceiverLogin, AtReceiverLoginReply, AtJoin, AtJoinReply,
           AtListen, Unserved
  <2>4. CASE /\ client["receiver"] = "joinReply"
             /\ d # << >> /\ Head(d) = Ok /\ Tail(d) \in Seq(Delivered)
    <3> HIDE DEF d
    <3>1. Append(d, out) \in Seq(Lines)
      BY <1>3, <2>1, LinesAre
    <3>2. /\ Append(d, out) # << >> /\ Head(Append(d, out)) = Ok
          /\ Tail(Append(d, out)) = Append(Tail(d), out)
      BY <2>1, <2>4, <1>3, LinesAre
    <3>3. Append(Tail(d), out) \in Seq(Delivered)
      BY <1>3, <2>4
    <3>4. Deliveries(d) = Tail(d) /\ Deliveries(Append(d, out)) = Tail(Append(d, out))
      BY <2>1, <2>4, <3>1, <3>2, DeliveriesAre
    <3>5. Reception'
      BY <1>1, <1>2, <1>7, <2>2, <2>3, <2>4, <3>2, <3>3
         DEF Reception, AtReceiverLogin, AtReceiverLoginReply, AtJoin, AtJoinReply, AtListen
    <3>6. Deliveries(down'["receiver"]) = Append(Deliveries(d), out)
      BY <2>2, <3>2, <3>4
    <3> QED BY <3>5, <3>6, <1>6, <1>7
  <2>5. CASE client["receiver"] = "listen" /\ d \in Seq(Delivered)
    <3> HIDE DEF d
    <3>1. Append(d, out) \in Seq(Delivered)
      BY <1>3, <2>5
    <3>2. Deliveries(d) = d /\ Deliveries(Append(d, out)) = Append(d, out)
      BY <2>5, <3>1, DeliveriesAre
    <3>3. Reception'
      BY <1>1, <1>2, <1>7, <2>2, <2>3, <2>5, <3>1
         DEF Reception, AtReceiverLogin, AtReceiverLoginReply, AtJoin, AtJoinReply, AtListen
    <3>4. Deliveries(down'["receiver"]) = Append(Deliveries(d), out)
      BY <2>2, <3>2
    <3> QED BY <3>3, <3>4, <1>6, <1>7
  <2> QED BY <2>3, <2>4, <2>5
<1> QED BY <1>5, <1>7

LEMMA HearingLastReply ==
  ASSUME TypeInv, Hearing, UNCHANGED server, LastReply("receiver", Err)
  PROVE  Hearing'
<1> USE EndsAre
<1>1. /\ UNCHANGED <<up, client, asked, home, member, out, start, printed, mqueue, sent, main>>
      /\ worker["receiver"] = "lastReply"
  BY DEF LastReply, senderVars, receiverVars, server
<1>2. worker'["receiver"] = "exited"
  BY ReceiverWorkerGoes DEF LastReply
<1>3. client["receiver"] = "exited" /\ net["receiver"] # "open"
  BY <1>1 DEF Hearing, Reception, AtReceiverLogin, AtReceiverLoginReply, AtJoin, AtJoinReply,
              AtListen, Unserved
<1>4. net'["receiver"] # "open"
  BY <1>3, ReceiverWorkerProbes DEF LastReply
<1>5. Reception'
  BY <1>1, <1>3, <1>4
     DEF Reception, AtReceiverLogin, AtReceiverLoginReply, AtJoin, AtJoinReply, AtListen
<1>6. Membership'
  BY <1>1, <1>2, <1>4 DEF Hearing, Membership, RoomsExist
<1>7. HearsTheRoom'
  BY <1>4 DEF HearsTheRoom
<1> QED BY <1>5, <1>6, <1>7 DEF Hearing

(* When the rooms are gone nothing is said of what is heard; the receiver   *)
(* and its worker still are where they can be.                              *)
LEMMA HearingDestroyed ==
  ASSUME TypeInv, Hearing, LastThreadEnds \/ \E e \in Ends : UseDestroyed(e)
  PROVE  Hearing'
<1> USE EndsAre
<1>1. /\ UNCHANGED <<down, net, client, asked, home, member, out, start, printed, mqueue, sent>>
      /\ main = "left" /\ main' \in {"left", "exited"}
  BY DEF LastThreadEnds, UseDestroyed, streams, senderVars, receiverVars
<1>2. HearsTheRoom'
  BY <1>1 DEF HearsTheRoom, RoomsExist
<1>3. /\ client["receiver"] # "exited" => up'["receiver"] = up["receiver"]
      /\ \/ worker'["receiver"] = worker["receiver"]
         \/ worker'["receiver"] = "exited" /\ main' = "exited"
         \/ worker'["receiver"] = "stuck" /\ worker["receiver"] \in {"add", "receive"}
      /\ main' = "exited" => worker'["receiver"] = "exited"
  <2>1. CASE LastThreadEnds
    BY <2>1 DEF LastThreadEnds, streams
  <2>2. CASE UseDestroyed("sender")
    BY <1>1, <2>2 DEF UseDestroyed, WorkerGoto, TypeInv, StreamType, PlaceType
  <2>3. CASE UseDestroyed("receiver")
    <3>1. worker["receiver"] \in {"add", "receive"}
      BY <2>3 DEF UseDestroyed, UsesRooms
    <3>2. client["receiver"] # "exited" => worker["receiver"] # "receive"
      BY DEF Hearing, Reception, AtReceiverLogin, AtReceiverLoginReply, AtJoin, AtJoinReply,
             AtListen, Unserved
    <3>3. client["receiver"] # "exited" => up'["receiver"] = up["receiver"]
      BY <2>3, <3>1, <3>2 DEF UseDestroyed, TypeInv, StreamType
    <3>4. \/ worker'["receiver"] = "stuck" /\ main' = "left"
          \/ worker'["receiver"] = "exited" /\ main' = "exited"
      BY <1>1, <2>3, ReceiverWorkerGoes DEF UseDestroyed
    <3> QED BY <3>1, <3>3, <3>4
  <2> QED BY <2>1, <2>2, <2>3 DEF Ends
<1>4. Reception'
  BY <1>1, <1>3
     DEF Hearing, Reception, AtReceiverLogin, AtReceiverLoginReply, AtJoin, AtJoinReply,
         AtListen, ReceiverJoin, Unserved
<1>5. Membership'
  BY <1>1, <1>3 DEF Hearing, Membership, RoomsExist
<1> QED BY <1>2, <1>4, <1>5 DEF Hearing

LEMMA HearingWorkerFails ==
  ASSUME TypeInv, Hearing, UNCHANGED server, ReceiverWorkerFails
  PROVE  Hearing'
<1> USE EndsAre
<1>1. /\ UNCHANGED <<up, down, net, client, asked, home, member, out, start, printed, mqueue,
                     sent, main>>
      /\ worker["receiver"] \in {"login", "loginReply", "join", "joinReply", "send"}
  BY DEF ReceiverWorkerFails, streams, senderVars, receiverVars, server
<1>2. worker'["receiver"] = "exited"
  BY ReceiverWorkerGoes DEF ReceiverWorkerFails
<1>3. net["receiver"] = "reset"
  <2>1. worker["receiver"] = "send" => checkStyle(out)
    BY DeliveredIs DEF Hearing, Membership, RoomsExist
  <2> QED BY <2>1 DEF ReceiverWorkerFails
<1>4. client["receiver"] = "exited"
  BY <1>3 DEF Hearing, Reception
<1>5. Reception'
  BY <1>1, <1>3, <1>4
     DEF Reception, AtReceiverLogin, AtReceiverLoginReply, AtJoin, AtJoinReply, AtListen
<1>6. Membership'
  BY <1>1, <1>2, <1>3 DEF Hearing, Membership, RoomsExist
<1>7. HearsTheRoom'
  BY <1>1, <1>3 DEF HearsTheRoom
<1> QED BY <1>5, <1>6, <1>7 DEF Hearing

LEMMA HearingStep ==
  ASSUME TypeInv, TypeInv', Conversation, Hearing, DeliveriesFit, [Next]_vars
  PROVE  Hearing'
<1>1. CASE handle_client_requests
  BY <1>1, HearingMainThread
<1>2. CASE SenderClient /\ UNCHANGED server
  BY <1>2, HearingRequest, HearingSender DEF SenderClient
<1>3. CASE SenderWorker /\ UNCHANGED server
  BY <1>3, HearingHandlers, HearingSender DEF SenderWorker
<1>4. CASE ReceiverClient /\ UNCHANGED server
  BY <1>4, HearingAsks, HearingAnswered, HearingPrints DEF ReceiverClient
<1>5. CASE ReceiverWorker /\ UNCHANGED server
  BY <1>5, HearingWorkerReads, HearingWorkerAnswers, HearingAdded, HearingDequeued,
     HearingDelivered, HearingWorkerFails, HearingLastReply DEF ReceiverWorker
<1>6. CASE /\ \E e \in Ends : ResetArrives(e) \/ ClientKilled(e) \/ ClientFails(e)
           /\ UNCHANGED server
  BY <1>6, HearingSender, HearingExits DEF Ends
<1>7. CASE LastThreadEnds \/ \E e \in Ends : UseDestroyed(e)
  BY <1>7, HearingDestroyed
<1>8. CASE UNCHANGED vars
  <2>1. UNCHANGED ReceiverView /\ UNCHANGED <<mqueue, sent, asked>>
    BY <1>8 DEF vars, server, chatVars, streams, senderVars, ReceiverView
  <2> QED BY <2>1, HearingKept
<1> QED BY <1>1, <1>2, <1>3, <1>4, <1>5, <1>6, <1>7, <1>8 DEF Next

(* server.cpp:120-124 and 263-281, room.cpp:39-50: as long as no line has a *)
(* length that the server cuts, with the names in front or without, and the *)
(* main thread still accepts, so that the rooms exist, a receiver that is   *)
(* added to its room has printed, or finds on its way to it in the stream,  *)
(* in the hands of its worker and in its queue, exactly the lines broadcast *)
(* to the room since, in the order they were broadcast: none is lost,       *)
(* doubled, cut or overtaken, wherever the two clients and their workers    *)
(* are.  Nothing is said once ~Server has deleted the rooms.                *)
THEOREM ReceiverHearsItsRoom ==
  ASSUME LinesFit, DeliveriesFit PROVE Spec => []HearsTheRoom
<1>1. TypeInv /\ TypeInv' /\ Conversation /\ Hearing /\ [Next]_vars => Hearing'
  BY HearingStep
<1>2. Hearing => HearsTheRoom
  BY DEF Hearing
<1> QED BY <1>1, <1>2, HearingInit, TypeInvariant, ConversationInvariant, PTL DEF Spec
=============================================================================
