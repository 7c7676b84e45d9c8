--------------------------- MODULE ProtocolProofs ---------------------------
(***************************************************************************)
(* Proofs about Protocol: client and server stay in step, and the server   *)
(* keeps nothing that the client has forgotten, for any number of sessions,*)
(* requests, errors and losses of the connection.                          *)
(***************************************************************************)
EXTENDS Protocol, TLAPS

(***************************************************************************)
(* Messages on their way                                                   *)
(***************************************************************************)
Nothing(seq, s) == Messages(seq, s) = {}
One(seq, s) == \E i \in DOMAIN seq : Messages(seq, s) = {i}

LEMMA OneIsSomething ==
  ASSUME NEW seq, NEW t, One(seq, t), Nothing(seq, t)
  PROVE  FALSE
BY DEF One, Nothing

LEMMA AppendElements ==
  ASSUME NEW S, NEW seq \in Seq(S), NEW m \in S
  PROVE  /\ Append(seq, m) \in Seq(S)
         /\ DOMAIN seq = 1..Len(seq) /\ Len(seq) \in Nat
         /\ DOMAIN Append(seq, m) = 1..(Len(seq) + 1)
         /\ Len(Append(seq, m)) = Len(seq) + 1
         /\ \A i \in 1..Len(seq) : Append(seq, m)[i] = seq[i]
         /\ Append(seq, m)[Len(seq) + 1] = m
OBVIOUS

LEMMA TailElements ==
  ASSUME NEW S, NEW seq \in Seq(S), seq # <<>>
  PROVE  /\ Tail(seq) \in Seq(S) /\ Head(seq) = seq[1] /\ Head(seq) \in S
         /\ 1 \in DOMAIN seq /\ DOMAIN seq = 1..Len(seq) /\ Len(seq) \in Nat
         /\ DOMAIN Tail(seq) = 1..(Len(seq) - 1)
         /\ Len(Tail(seq)) = Len(seq) - 1
         /\ \A i \in 1..(Len(seq) - 1) : Tail(seq)[i] = seq[i + 1]
OBVIOUS

LEMMA AppendMessages ==
  ASSUME NEW S, NEW seq \in Seq(S), NEW m \in S, NEW t
  PROVE  /\ m.s # t /\ Nothing(seq, t) => Nothing(Append(seq, m), t)
         /\ m.s # t /\ One(seq, t) => One(Append(seq, m), t)
         /\ m.s = t /\ Nothing(seq, t) => One(Append(seq, m), t)
<1>1. CASE m.s # t
  <2>1. Messages(Append(seq, m), t) = Messages(seq, t)
    BY <1>1, AppendElements DEF Messages
  <2>2. DOMAIN seq \subseteq DOMAIN Append(seq, m)
    BY AppendElements
  <2> QED
    BY <1>1, <2>1, <2>2 DEF Nothing, One
<1>2. CASE m.s = t /\ Nothing(seq, t)
  <2>1. \A i \in 1..Len(seq) : seq[i].s # t
    BY <1>2, AppendElements DEF Messages, Nothing
  <2>2. Messages(Append(seq, m), t) = {Len(seq) + 1}
    BY <1>2, <2>1, AppendElements DEF Messages
  <2>3. Len(seq) + 1 \in DOMAIN Append(seq, m)
    BY AppendElements
  <2> QED
    BY <1>2, <2>2, <2>3 DEF One
<1> QED
  BY <1>1, <1>2

LEMMA TailMessages ==
  ASSUME NEW S, NEW seq \in Seq(S), seq # <<>>, NEW t
  PROVE  /\ Nothing(seq, t) => Nothing(Tail(seq), t) /\ Head(seq).s # t
         /\ One(seq, t) /\ Head(seq).s # t => One(Tail(seq), t)
         /\ One(seq, t) /\ Head(seq).s = t => Nothing(Tail(seq), t)
<1>1. ASSUME Nothing(seq, t) PROVE Nothing(Tail(seq), t) /\ Head(seq).s # t
  <2>1. \A i \in 1..Len(seq) : seq[i].s # t
    BY <1>1, TailElements DEF Messages, Nothing
  <2>2. \A i \in DOMAIN Tail(seq) : Tail(seq)[i].s # t
    BY <2>1, TailElements
  <2> QED
    BY <2>1, <2>2, TailElements DEF Messages, Nothing
<1>2. ASSUME NEW j \in DOMAIN seq, Messages(seq, t) = {j}, Head(seq).s # t
      PROVE  One(Tail(seq), t)
  <2>1. j \in 1..Len(seq) /\ j # 1 /\ \A i \in 1..Len(seq) : seq[i].s = t <=> i = j
    BY <1>2, TailElements DEF Messages
  <2>2. Messages(Tail(seq), t) = {j - 1}
    BY <2>1, TailElements DEF Messages
  <2>3. j - 1 \in DOMAIN Tail(seq)
    BY <2>1, TailElements
  <2> QED
    BY <2>2, <2>3 DEF One
<1>3. ASSUME NEW j \in DOMAIN seq, Messages(seq, t) = {j}, Head(seq).s = t
      PROVE  Nothing(Tail(seq), t)
  <2>1. j = 1 /\ \A i \in 1..Len(seq) : seq[i].s = t <=> i = j
    BY <1>3, TailElements DEF Messages
  <2> QED
    BY <2>1, TailElements DEF Messages, Nothing
<1> QED
  BY <1>1, <1>2, <1>3 DEF One

(***************************************************************************)
(* The inductive invariant                                                 *)
(***************************************************************************)
SessionRecord ==
  [life : {"none", "live", "gone"}, listed : BOOLEAN, open : BOOLEAN, stale : BOOLEAN,
   queued : BOOLEAN, stored : BOOLEAN, msg : Message, sent : Nat]

RequestRecord ==
  [s : Session \cup {Fatal}, need : BOOLEAN,
   req : {"open", "process", "close", "cancel", "exit"}]

CallRecord ==
  [op : {"none", "open", "request", "response", "close", "drain", "drained", "cancel", "over"},
   s : Session \cup {Fatal}]

Types ==
  /\ sess \in [Session -> SessionRecord] /\ call \in CallRecord
  /\ state \in {"idle", "request", "response"}
  /\ c2s \in Seq(RequestRecord) /\ s2c \in Seq(Message)
  /\ server \in [up : BOOLEAN, sessions : SUBSET Session]
  /\ check \in {"none", "unknown", "twice"} /\ errors \in Nat /\ losses \in Nat

LEMMA TypesOK == Types => ProtocolTypeOK
BY DEF Types, ProtocolTypeOK, SessionRecord, RequestRecord, CallRecord

(* The connection can be used, and the client is there.                    *)
Alive == state = "idle" /\ call.op # "over"

(* A call is made while the connection can be used; it waits for what its  *)
(* session has queued. Only a session that was cancelled with a stored     *)
(* response spoils a connection whose server runs.                         *)
Calls ==
  /\ check # "twice"
  /\ check = "unknown" => \E s \in Session : sess[s].stale
  /\ check = "none" /\ server.up => state = "idle"
  /\ ~server.up => server.sessions = {}
  /\ call.op \notin {"none", "over"} =>
       state = "idle" /\ call.s \in Session /\ sess[call.s].life = "live"
  /\ Waiting => sess[call.s].queued
  /\ call.op = "drained" => ~sess[call.s].queued /\ sess[call.s].open

Life(s) ==
  /\ sess[s].life = "none" => sess[s].sent = 0
  /\ sess[s].sent = 0 => ~sess[s].queued /\ ~sess[s].open /\ ~sess[s].stale
  /\ sess[s].life = "live" /\ (s \in Async \/ sess[s].open) => sess[s].listed
  /\ sess[s].stored /\ ~sess[s].stale => sess[s].queued
  /\ sess[s].stale => \/ sess[s].life = "gone"
                      \/ call.op = "cancel" /\ call.s = s /\ sess[s].stored

(* A response that comes finds its session in the list, or its session     *)
(* waits for it.                                                           *)
Known(s) ==
  ~sess[s].stale /\ sess[s].queued =>
    sess[s].listed \/ sess[s].stored \/ (Waiting /\ call.s = s)

Requests ==
  \A i \in DOMAIN c2s : IF c2s[i].req = "exit" THEN call.op = "over" ELSE c2s[i].s \in Session

(* A server that gives up says nothing more.                               *)
FatalLast ==
  \A i \in DOMAIN s2c : s2c[i].s = Fatal => i = Len(s2c) /\ ~server.up

Sync(s) ==
  ~sess[s].stale =>
    /\ Nothing(s2c, s) \/ (One(s2c, s) /\ sess[s].queued /\ ~sess[s].stored)
    /\ server.up =>
         /\ ~sess[s].queued => Nothing(c2s, s)
         /\ sess[s].queued => \/ One(c2s, s) /\ Nothing(s2c, s) /\ ~sess[s].stored
                              \/ Nothing(c2s, s) /\ (One(s2c, s) \/ sess[s].stored)

(* A session cancelled with a stored response has the cancel, or its       *)
(* response, on the way, or stored with what is left of the session.       *)
StaleSync(s) ==
  LET left == sess[s].stored /\ sess[s].life = "gone" IN
  sess[s].stale =>
    \/ Nothing(s2c, s) /\ (server.up => Nothing(c2s, s) \/ (One(c2s, s) /\ ~left))
    \/ One(s2c, s) /\ ~left /\ (server.up => Nothing(c2s, s))

(* It will be closed or cancelled, or freeing it has thrown.               *)
Owned(s) ==
  sess[s].open /\ (sess[s].life = "live" \/ (sess[s].life = "gone" /\ sess[s].listed))

(* What the server keeps data for, and what is on its way that says that   *)
(* it does, or that it does not any more.                                  *)
Data(s) ==
  /\ s \in server.sessions => IF sess[s].stale THEN Cancelled(s) ELSE Owned(s) \/ Cancelled(s)
  /\ \A i \in Messages(c2s, s) :
       c2s[i].req = "open" => Owned(s) /\ s \notin server.sessions /\ ~sess[s].stale
  /\ \A i \in Messages(s2c, s) : s2c[i].close => s \notin server.sessions
  /\ sess[s].stored /\ sess[s].msg.close => s \notin server.sessions

(* A close or a cancel waits for the response that closes the session.     *)
Ending(s) ==
  call.op \in {"close", "cancel"} /\ call.s = s /\ ~sess[s].stale =>
    /\ ~sess[s].stored
    /\ \A i \in Messages(c2s, s) : c2s[i].req \in {"close", "cancel"}
    /\ \A i \in Messages(s2c, s) : s2c[i].type = "response" => s2c[i].close

ProtocolInv ==
  /\ Types /\ Calls /\ Requests /\ FatalLast
  /\ \A s \in Session : Life(s) /\ Sync(s) /\ StaleSync(s)
  /\ Alive => \A s \in Session : Known(s)
  /\ server.up /\ call.op # "over" => \A s \in Session : Data(s) /\ Ending(s)

(* The sessions but s are left alone.                                      *)
Others(s) ==
  /\ sess' \in [Session -> SessionRecord]
  /\ \A t \in Session \ {s} : sess'[t] = sess[t]

(* What is on its way for a session is what was.                           *)
LEMMA SameMessages ==
  ASSUME UNCHANGED <<c2s, s2c>>, NEW t
  PROVE  /\ Nothing(c2s, t)' = Nothing(c2s, t) /\ One(c2s, t)' = One(c2s, t)
         /\ Nothing(s2c, t)' = Nothing(s2c, t) /\ One(s2c, t)' = One(s2c, t)
         /\ Messages(c2s, t)' = Messages(c2s, t) /\ Messages(s2c, t)' = Messages(s2c, t)
         /\ Cancelled(t)' = Cancelled(t)
BY DEF Nothing, One, Messages, Cancelled

(* A cancel stays on its way while requests are added behind it.           *)
LEMMA CancelledAppend ==
  ASSUME NEW m \in RequestRecord, c2s \in Seq(RequestRecord), c2s' = Append(c2s, m), NEW t
  PROVE  /\ Cancelled(t) => Cancelled(t)'
         /\ m.s = t /\ m.req = "cancel" => Cancelled(t)'
<1>1. /\ \A i \in DOMAIN c2s : i \in DOMAIN c2s' /\ c2s'[i] = c2s[i]
      /\ \E i \in DOMAIN c2s' : c2s'[i] = m
  BY AppendElements
<1> QED
  BY <1>1 DEF Cancelled

(* A request that cannot be sent: the server is gone.                      *)
LEMMA SendFailInv ==
  ASSUME ProtocolInv, NEW s \in Session, NEW life \in {"live", "gone"},
         call.op \in {"none", "drained"}, sess[s].life = "live", ~sess[s].stale,
         ~server.up, state' = "request", call' = NoCall,
         sess' = [sess EXCEPT ![s].life = life],
         UNCHANGED <<c2s, s2c, server, check, errors, losses>>
  PROVE  ProtocolInv'
<1> USE DEF ProtocolInv, Types
<1>1. call' \in CallRecord /\ call'.op = "none"
  BY DEF CallRecord, NoCall
<1>2. /\ Others(s) /\ sess'[s].life \in {"live", "gone"}
      /\ sess'[s].queued = sess[s].queued /\ sess'[s].open = sess[s].open
      /\ sess'[s].listed = sess[s].listed /\ sess'[s].stored = sess[s].stored
      /\ sess'[s].sent = sess[s].sent /\ sess'[s].stale = sess[s].stale
  BY DEF Others, SessionRecord
<1>3. Types'
  BY <1>1, <1>2 DEF Others
<1>4. Requests' /\ FatalLast'
  BY <1>1 DEF Requests, FatalLast
<1>5. Calls'
  <2>1. ASSUME NEW t \in Session, sess[t].stale PROVE sess'[t].stale
    BY <1>2, <2>1 DEF Others
  <2> QED
    BY <1>1, <2>1 DEF Calls, Waiting
<1>6. ASSUME NEW t \in Session PROVE Life(t)' /\ Sync(t)' /\ StaleSync(t)'
  <2>1. Life(t) /\ Sync(t) /\ StaleSync(t)
    OBVIOUS
  <2>2. CASE t = s
    BY <1>2, <2>1, <2>2, SameMessages DEF Life, Sync, StaleSync
  <2>3. CASE t # s
    BY <1>1, <1>2, <2>1, <2>3, SameMessages DEF Life, Sync, StaleSync, Others
  <2> QED
    BY <2>2, <2>3
<1> QED
  BY <1>3, <1>4, <1>5, <1>6 DEF Alive

(* protocolClientRequestInternal(), for each request the client sends.     *)
LEMMA SendInv ==
  ASSUME ProtocolInv, NEW s \in Session,
         NEW req \in {"open", "process", "close", "cancel"},
         NEW op \in {"none", "open", "request", "close", "cancel"},
         NEW rec \in SessionRecord,
         state = "idle", call.op \in {"none", "drained"}, ~sess[s].queued,
         rec.stored = sess[s].stored, rec.msg = sess[s].msg, rec.life = sess[s].life,
         sess[s].life = "live", ~sess[s].stale, ~rec.stale, rec.sent # 0,
         sess[s].listed \/ op = "none" \/ rec.open => rec.listed,
         req # "open" => rec.open = sess[s].open, req = "open" => rec.open,
         req = "open" => ~sess[s].open, op \in {"close", "cancel"} => req = op,
         Send(s, req, op, rec), UNCHANGED <<s2c, server, check, errors, losses>>
  PROVE  ProtocolInv'
<1> USE DEF ProtocolInv, Types
<1> DEFINE m == Request(s, req)
           new == [rec EXCEPT !.queued = TRUE]
<1>1. CASE /\ c2s' = Append(c2s, m) /\ sess' = [sess EXCEPT ![s] = new]
           /\ call' = IF op = "none" THEN NoCall ELSE [op |-> op, s |-> s]
           /\ UNCHANGED state
  <2>1. new \in SessionRecord /\ new.queued /\ new.stored = sess[s].stored /\ new.msg = sess[s].msg
        /\ new.life = rec.life /\ new.listed = rec.listed /\ new.open = rec.open /\ new.sent = rec.sent
        /\ ~new.stale
    BY DEF SessionRecord
  <2>2. Others(s) /\ sess'[s] = new
    BY <1>1, <2>1 DEF Others
  <2> HIDE DEF new
  <2>3. m \in RequestRecord /\ m.s = s /\ m.req = req
    BY DEF Request, RequestRecord, SessionRecord
  <2> HIDE DEF m
  <2>4. /\ call' \in CallRecord /\ call'.op = op
        /\ op # "none" => call'.s = s
    BY <1>1 DEF CallRecord, NoCall
  <2>4a. Life(s) /\ Sync(s) /\ ~sess[s].stored /\ Nothing(s2c, s) /\ (server.up => Nothing(c2s, s))
    BY DEF Life, Sync
  <2>5. Types'
    BY <1>1, <2>2, <2>3, <2>4, AppendElements DEF Others
  <2>6. Calls'
    <3>1. \A t \in Session : sess[t].stale => sess'[t].stale
      BY <2>2 DEF Others
    <3> QED
      BY <2>1, <2>2, <2>4, <3>1, <1>1 DEF Calls, Waiting
  <2>7. Requests' /\ FatalLast'
    BY <1>1, <2>3, <2>4, AppendElements DEF Requests, FatalLast
  <2>8. ASSUME NEW t \in Session PROVE Life(t)' /\ Known(t)'
    <3>1. Life(t) /\ Known(t)
      BY DEF Alive
    <3>2. CASE t = s
      BY <2>1, <2>2, <2>4, <3>1, <3>2 DEF Life, Known, Waiting
    <3>3. CASE t # s
      BY <2>2, <2>4, <3>1, <3>3 DEF Life, Known, Waiting, Others
    <3> QED
      BY <3>2, <3>3
  <2>9. ASSUME NEW t \in Session PROVE Sync(t)' /\ StaleSync(t)'
    <3>1. Sync(t) /\ StaleSync(t)
      OBVIOUS
    <3>2. Nothing(s2c, t)' = Nothing(s2c, t) /\ One(s2c, t)' = One(s2c, t)
      BY DEF Nothing, One, Messages
    <3>3. CASE t = s
      <4>1. Nothing(c2s, s) => One(c2s, s)'
        BY <1>1, <2>3, AppendMessages
      <4> QED
        BY <2>1, <2>2, <2>4a, <3>2, <3>3, <4>1 DEF Sync, StaleSync
    <3>4. CASE t # s
      <4>1. (Nothing(c2s, t) => Nothing(c2s, t)') /\ (One(c2s, t) => One(c2s, t)')
        BY <1>1, <2>3, <3>4, AppendMessages
      <4> QED
        BY <2>2, <3>1, <3>2, <3>4, <4>1 DEF Sync, StaleSync, Others
    <3> QED
      BY <3>3, <3>4
  <2>10. ASSUME NEW t \in Session, server.up PROVE Data(t)' /\ Ending(t)'
    <3>1. Data(t) /\ Messages(s2c, t)' = Messages(s2c, t) /\ (Cancelled(t) => Cancelled(t)')
      BY <1>1, <2>3, <2>10, CancelledAppend DEF Messages
    <3>2. /\ sess'[t].stored = sess[t].stored /\ sess'[t].msg = sess[t].msg
          /\ sess'[t].stale = sess[t].stale /\ (Owned(t) => Owned(t)')
      <4>1. CASE t = s
        <5>1. ~sess[s].stale /\ sess[s].stale \in BOOLEAN /\ new.stale \in BOOLEAN
          BY <2>1 DEF SessionRecord
        <5> QED
          BY <2>1, <2>2, <4>1, <5>1 DEF Owned
      <4>2. CASE t # s
        BY <2>2, <4>2 DEF Others, Owned
      <4> QED
        BY <4>1, <4>2
    <3>2a. t = s => ~Cancelled(t)
      BY <2>4a, <2>10 DEF Cancelled, Nothing, Messages
    <3>3. ASSUME NEW i \in Messages(c2s, t)', c2s'[i].req = "open"
          PROVE  Owned(t)' /\ t \notin server.sessions /\ ~sess'[t].stale
      <4>1. CASE i \in 1..Len(c2s)
        BY <1>1, <2>3, <3>1, <3>2, <3>3, <4>1, AppendElements DEF Data, Messages
      <4>2. CASE i = Len(c2s) + 1
        <5>1. t = s /\ req = "open"
          BY <1>1, <2>3, <3>3, <4>2, AppendElements DEF Messages
        <5> QED
          BY <2>1, <2>2, <3>1, <3>2a, <5>1 DEF Data, Owned
      <4> QED
        BY <1>1, <2>3, <3>3, <4>1, <4>2, AppendElements DEF Messages
    <3>4. Data(t)'
      BY <3>1, <3>2, <3>3 DEF Data
    <3>5. Ending(t)'
      <4>1. SUFFICES ASSUME t = s, op \in {"close", "cancel"} PROVE Ending(s)'
        BY <2>4 DEF Ending
      <4>2. \A i \in Messages(c2s, s)' : c2s'[i].req = req
        BY <1>1, <2>3, <2>4a, <2>10, AppendElements DEF Messages, Nothing
      <4> QED
        BY <2>4a, <3>1, <3>2, <4>1, <4>2 DEF Ending, Nothing
    <3> QED
      BY <3>4, <3>5
  <2> QED
    BY <2>5, <2>6, <2>7, <2>8, <2>9, <2>10
<1>2. CASE /\ ~server.up /\ state' = "request" /\ call' = NoCall
           /\ sess' = [sess EXCEPT ![s].life = IF op = "cancel" THEN "gone" ELSE @]
           /\ UNCHANGED c2s
  <2>1. PICK life \in {"live", "gone"} : life = IF op = "cancel" THEN "gone" ELSE sess[s].life
    OBVIOUS
  <2>2. sess' = [sess EXCEPT ![s].life = life]
    BY <1>2, <2>1
  <2> QED
    BY <1>2, <2>2, SendFailInv
<1> QED
  BY <1>1, <1>2 DEF Send

(* protocolClientResponseInternal() returns with a message: nothing more   *)
(* is outstanding for the session of the call.                             *)
LEMMA FoundInv ==
  ASSUME ProtocolInv, Waiting, ~sess[call.s].stale, NEW m \in Message, Found(m),
         UNCHANGED <<state, c2s, server, check, errors, losses>>,
         s2c' \in Seq(Message), FatalLast', Nothing(s2c', call.s),
         server.up => Nothing(c2s, call.s) /\ (m.close => call.s \notin server.sessions),
         server.up /\ call.op \in {"close", "cancel"} => m.type = "error" \/ m.close,
         \A t \in Session \ {call.s} :
           (Nothing(s2c, t) => Nothing(s2c, t)') /\ (One(s2c, t) => One(s2c, t)'),
         server.up => \A t \in Session : \A i \in Messages(s2c, t)' : s2c'[i].close => t \notin server.sessions
  PROVE  ProtocolInv'
<1> USE DEF ProtocolInv, Types
<1> DEFINE s == call.s
           open == sess[s].open /\ ~m.close
           thrown == m.type = "error"
           freed == \/ call.op \in {"close", "cancel"} /\ ~thrown
                    \/ call.op = "drain" /\ ~thrown /\ ~open
           gone == freed \/ (call.op \in {"drain", "cancel"} /\ thrown)
           listed == sess[s].listed /\ ~freed
           life == IF gone THEN "gone" ELSE sess[s].life
           new == [sess[s] EXCEPT !.queued = FALSE, !.stored = FALSE, !.open = open,
                                  !.msg = NoMessage, !.listed = listed, !.life = life]
<1>1. s \in Session /\ state = "idle" /\ call.op # "over" /\ Alive /\ sess[s].life = "live"
  BY DEF Calls, Waiting, Alive
<1>2. NoMessage \in Message
  BY DEF NoMessage, Message
<1>3. sess' = [sess EXCEPT ![s] = new]
  BY <1>1 DEF Found
<1>4. call' = IF call.op = "drain" /\ ~gone THEN [op |-> "drained", s |-> s] ELSE NoCall
  BY DEF Found
<1>5. freed \in BOOLEAN /\ gone \in BOOLEAN /\ open \in BOOLEAN /\ (freed => gone)
  BY <1>1 DEF SessionRecord, Message
<1>6. call.op = "drain" /\ ~gone => open
  BY <1>1
<1>6b. server.up /\ freed /\ sess[s].open => m.close
  BY <1>1
<1> HIDE DEF freed, gone, open, thrown
<1>6a. listed \in BOOLEAN /\ life \in {"none", "live", "gone"}
  BY <1>1, <1>5 DEF SessionRecord
<1> HIDE DEF listed, life
<1>7. /\ new \in SessionRecord /\ ~new.queued /\ ~new.stored /\ new.open = open
      /\ new.listed = listed /\ new.sent = sess[s].sent /\ new.life = life /\ ~new.stale
  <2>1. sess[s] \in SessionRecord
    BY <1>1
  <2>2. PICK r \in SessionRecord : r = sess[s] /\ ~r.stale
    BY <2>1
  <2>3. new = [r EXCEPT !.queued = FALSE, !.stored = FALSE, !.open = open,
                        !.msg = NoMessage, !.listed = listed, !.life = life]
    BY <2>2
  <2> HIDE DEF new, s, ProtocolInv, Types
  <2> QED
    BY <1>2, <1>5, <1>6a, <2>2, <2>3 DEF SessionRecord
<1>8. Others(s) /\ sess'[s] = new
  BY <1>1, <1>3, <1>7 DEF Others
<1> HIDE DEF new, s
<1>9. call' \in CallRecord /\ call'.op \in {"none", "drained"}
      /\ (call'.op = "drained" => call'.s = s /\ call.op = "drain" /\ ~gone)
  BY <1>1, <1>4 DEF CallRecord, NoCall
<1>10. open => sess[s].open
  BY DEF open, s
<1>11. Types' /\ Requests'
  BY <1>1, <1>8, <1>9 DEF Others, Requests
<1>12. Calls'
  <2>1. \A t \in Session : sess[t].stale => sess'[t].stale
    BY <1>8 DEF Others, s
  <2> QED
    BY <1>1, <1>6, <1>7, <1>8, <1>9, <2>1 DEF Calls, Waiting, life
<1>13. ASSUME NEW t \in Session PROVE Life(t)' /\ Known(t)'
  <2>1. Life(t) /\ Known(t)
    BY <1>1
  <2>2. CASE t = s
    BY <1>5, <1>7, <1>8, <1>10, <2>1, <2>2 DEF Life, Known, listed, life
  <2>3. CASE t # s
    BY <1>8, <1>9, <2>1, <2>3 DEF Life, Known, Others, Waiting, s
  <2> QED
    BY <2>2, <2>3
<1>14. ASSUME NEW t \in Session PROVE Sync(t)' /\ StaleSync(t)'
  <2>1. Sync(t) /\ StaleSync(t)
    OBVIOUS
  <2>2. Nothing(c2s, t)' = Nothing(c2s, t) /\ One(c2s, t)' = One(c2s, t)
    BY DEF Nothing, One, Messages
  <2>3. CASE t = s
    BY <1>7, <1>8, <2>2, <2>3 DEF Sync, StaleSync, s
  <2>4. CASE t # s
    BY <1>8, <2>1, <2>2, <2>4 DEF Sync, StaleSync, Others, s
  <2> QED
    BY <2>3, <2>4
<1>15. ASSUME NEW t \in Session, server.up PROVE Data(t)' /\ Ending(t)'
  <2>1. Data(t) /\ Messages(c2s, t)' = Messages(c2s, t) /\ Cancelled(t)' = Cancelled(t)
    BY <1>1, <1>15 DEF Messages, Cancelled
  <2>2. CASE t = s
    <3>0. Messages(c2s, t)' = {} /\ ~Cancelled(t) /\ ~sess[t].stale
      BY <1>15, <2>2 DEF Nothing, Messages, Cancelled, s
    <3>1. ASSUME t \in server.sessions PROVE Owned(t)'
      <4>1. Owned(s) /\ ~m.close /\ sess[s].listed /\ open /\ ~freed
        BY <1>1, <1>6b, <1>15, <2>1, <2>2, <3>0, <3>1 DEF Data, Owned, Life, open, s
      <4>2. sess'[s].open /\ sess'[s].listed /\ sess'[s].life \in {"live", "gone"}
        BY <1>1, <1>5, <1>7, <1>8, <4>1 DEF listed, life
      <4> QED
        BY <2>2, <4>2 DEF Owned
    <3>2. ~sess'[t].stored /\ ~sess'[t].stale
      BY <1>7, <1>8, <2>2
    <3> QED
      BY <1>9, <1>15, <3>0, <3>1, <3>2 DEF Data, Ending
  <2>3. CASE t # s
    <3>1. sess'[t] = sess[t] /\ (Owned(t) => Owned(t)')
      BY <1>8, <2>3 DEF Others, Owned
    <3> QED
      BY <1>9, <1>15, <2>1, <3>1 DEF Data, Ending
  <2> QED
    BY <2>2, <2>3
<1> QED
  BY <1>11, <1>12, <1>13, <1>14, <1>15

(* The cancel of a session that was freed with a stored response: it ends  *)
(* with that response, and leaves its own on the way.                      *)
LEMMA StaleFoundInv ==
  ASSUME ProtocolInv, Waiting, sess[call.s].stale, Found(sess[call.s].msg),
         UNCHANGED <<state, c2s, s2c, server, check, errors, losses>>
  PROVE  ProtocolInv'
<1> USE DEF ProtocolInv, Types
<1>1. PICK s \in Session : s = call.s /\ sess[s].life = "live" /\ sess[s].stale
  BY DEF Calls, Waiting
<1>2. call.op = "cancel" /\ state = "idle"
  BY <1>1 DEF Life, Calls
<1>3. PICK m \in Message : m = sess[s].msg
  BY DEF SessionRecord
<1> DEFINE open == sess[s].open /\ ~m.close
           listed == sess[s].listed /\ m.type = "error"
<1>4. /\ sess' = [sess EXCEPT ![s].queued = FALSE, ![s].stored = FALSE, ![s].open = open,
                              ![s].msg = NoMessage, ![s].listed = listed, ![s].life = "gone"]
      /\ call' = NoCall
  <2>1. Found(m)
    BY <1>1, <1>3
  <2> HIDE DEF ProtocolInv, Types
  <2> QED
    BY <1>1, <1>2, <2>1 DEF Found
<1>5. open \in BOOLEAN /\ listed \in BOOLEAN /\ NoMessage \in Message
  BY <1>3 DEF SessionRecord, Message, NoMessage
<1> HIDE DEF open, listed
<1>6. /\ Others(s) /\ sess'[s].life = "gone" /\ ~sess'[s].queued /\ ~sess'[s].stored
      /\ sess'[s].stale /\ sess'[s].sent = sess[s].sent
  BY <1>1, <1>4, <1>5 DEF Others, SessionRecord
<1>7. call' \in CallRecord /\ call'.op = "none"
  BY <1>4 DEF NoCall, CallRecord
<1>8. Types' /\ Requests' /\ FatalLast'
  BY <1>2, <1>6, <1>7 DEF Others, Requests, FatalLast
<1>9. Calls'
  BY <1>1, <1>2, <1>6, <1>7 DEF Calls, Waiting
<1>10. ASSUME NEW t \in Session
       PROVE  /\ Life(t)' /\ Sync(t)' /\ StaleSync(t)' /\ Known(t)'
              /\ server'.up => Data(t)' /\ Ending(t)'
  <2>1. Life(t) /\ Sync(t) /\ StaleSync(t) /\ Known(t) /\ (server.up => Data(t))
    BY <1>2 DEF Alive
  <2>2. CASE t = s
    <3>1. Life(t)' /\ Known(t)' /\ Sync(t)' /\ Ending(t)'
      BY <1>1, <1>6, <1>7, <2>1, <2>2 DEF Life, Known, Sync, Ending
    <3>2. StaleSync(t)' /\ (server.up => Data(t)')
      BY <1>1, <1>6, <2>1, <2>2, SameMessages DEF StaleSync, Data
    <3> QED
      BY <3>1, <3>2
  <2>3. CASE t # s
    <3>1. sess'[t] = sess[t] /\ (Owned(t) => Owned(t)')
      BY <1>6, <2>3 DEF Others, Owned
    <3>2. Life(t)' /\ Known(t)' /\ Ending(t)'
      BY <1>1, <1>2, <1>7, <2>1, <2>3, <3>1 DEF Life, Known, Waiting, Ending
    <3>3. Sync(t)' /\ StaleSync(t)' /\ (server.up => Data(t)')
      BY <2>1, <3>1, SameMessages DEF Sync, StaleSync, Data
    <3> QED
      BY <3>2, <3>3
  <2> QED
    BY <2>2, <2>3
<1> QED
  BY <1>8, <1>9, <1>10

(***************************************************************************)
(* The callers                                                             *)
(***************************************************************************)

(* A step of the client alone that leaves what is outstanding as it is.    *)
LEMMA QuietInv ==
  ASSUME ProtocolInv, NEW s \in Session, Others(s), call' \in CallRecord,
         UNCHANGED <<state, c2s, s2c, server, check, errors, losses>>,
         call.op = "none", Calls', Life(s)', Alive => Known(s)',
         call'.op \notin {"over", "close", "cancel"}, ~sess[s].stale, ~sess'[s].stale,
         server.up /\ Owned(s) => Owned(s)', sess'[s].queued = sess[s].queued, sess'[s].stored = sess[s].stored,
         sess'[s].open = sess[s].open, sess'[s].msg = sess[s].msg
  PROVE  ProtocolInv'
<1> USE DEF ProtocolInv, Types
<1>1. Types' /\ Requests' /\ FatalLast'
  BY DEF Others, Requests, FatalLast
<1>2. ASSUME NEW t \in Session PROVE Life(t)' /\ (Alive' => Known(t)')
  <2>1. Life(t) /\ (Alive => Known(t))
    OBVIOUS
  <2>2. CASE t = s
    BY <2>2 DEF Alive
  <2>3. CASE t # s
    BY <2>1, <2>3 DEF Life, Known, Others, Alive, Waiting
  <2> QED
    BY <2>2, <2>3
<1>3. ASSUME NEW t \in Session
      PROVE  /\ Sync(t)' /\ StaleSync(t)'
             /\ server'.up /\ call'.op # "over" => Data(t)' /\ Ending(t)'
  <2>1. /\ sess'[t].queued = sess[t].queued /\ sess'[t].stored = sess[t].stored
        /\ sess'[t].open = sess[t].open /\ sess'[t].msg = sess[t].msg
        /\ sess'[t].stale = sess[t].stale /\ (sess[t].stale => sess'[t].life = sess[t].life)
        /\ server.up /\ Owned(t) => Owned(t)'
    <3>1. CASE t = s
      BY <3>1 DEF SessionRecord, Others
    <3>2. CASE t # s
      BY <3>2 DEF Others, Owned
    <3> QED
      BY <3>1, <3>2
  <2>2. Sync(t)' /\ StaleSync(t)'
    BY <2>1, SameMessages DEF Sync, StaleSync
  <2>3. server.up => Data(t)' /\ Ending(t)'
    BY <2>1, SameMessages DEF Data, Ending
  <2> QED
    BY <2>2, <2>3
<1> QED
  BY <1>1, <1>2, <1>3

(* The cancel of a session whose response was stored by another session.   *)
LEMMA StaleSendInv ==
  ASSUME ProtocolInv, NEW s \in Session, call.op = "none", state = "idle",
         sess[s].life = "live", ~sess[s].stale, sess[s].stored, sess[s].open,
         Send(s, "cancel", "cancel", [sess[s] EXCEPT !.stale = sess[s].stored]),
         UNCHANGED <<s2c, server, check, errors, losses>>
  PROVE  ProtocolInv'
<1> USE DEF ProtocolInv, Types
<1> DEFINE m == Request(s, "cancel")
<1>1. CASE /\ c2s' = Append(c2s, m)
           /\ sess' = [sess EXCEPT ![s] = [[sess[s] EXCEPT !.stale = sess[s].stored] EXCEPT !.queued = TRUE]]
           /\ call' = [op |-> "cancel", s |-> s] /\ UNCHANGED state
  <2>1. /\ Others(s) /\ sess'[s].queued /\ sess'[s].stale /\ sess'[s].stored
        /\ sess'[s].life = "live" /\ sess'[s].open /\ sess'[s].listed = sess[s].listed
        /\ sess'[s].msg = sess[s].msg /\ sess'[s].sent = sess[s].sent
    BY <1>1 DEF Others, SessionRecord
  <2>2. m \in RequestRecord /\ m.s = s /\ m.req = "cancel"
    BY DEF Request, RequestRecord, SessionRecord
  <2> HIDE DEF m
  <2>3. call' \in CallRecord /\ call'.op = "cancel" /\ call'.s = s
    BY <1>1 DEF CallRecord
  <2>4. Nothing(s2c, s) /\ (server.up => Nothing(c2s, s)) /\ Life(s)
    BY OneIsSomething DEF Sync, Life
  <2>5. Types' /\ Requests' /\ FatalLast'
    BY <1>1, <2>1, <2>2, <2>3, AppendElements DEF Others, Requests, FatalLast
  <2>6. Calls'
    BY <1>1, <2>1, <2>3 DEF Calls, Waiting
  <2>7. ASSUME NEW t \in Session PROVE Life(t)' /\ Known(t)' /\ Sync(t)' /\ StaleSync(t)'
    <3>1. Life(t) /\ Known(t) /\ Sync(t) /\ StaleSync(t)
      BY DEF Alive
    <3>2. Nothing(s2c, t)' = Nothing(s2c, t) /\ One(s2c, t)' = One(s2c, t)
      BY DEF Nothing, One, Messages
    <3>3. CASE t = s
      <4>1. Nothing(c2s, s) => One(c2s, s)'
        BY <1>1, <2>2, AppendMessages
      <4> QED
        BY <2>1, <2>3, <2>4, <3>1, <3>2, <3>3, <4>1 DEF Life, Known, Sync, StaleSync
    <3>4. CASE t # s
      <4>1. (Nothing(c2s, t) => Nothing(c2s, t)') /\ (One(c2s, t) => One(c2s, t)')
        BY <1>1, <2>2, <3>4, AppendMessages
      <4>2. Life(t)' /\ Known(t)'
        BY <2>1, <2>3, <3>1, <3>4 DEF Life, Known, Waiting, Others
      <4> QED
        BY <2>1, <3>1, <3>2, <3>4, <4>1, <4>2 DEF Sync, StaleSync, Others
    <3> QED
      BY <3>3, <3>4
  <2>8. ASSUME NEW t \in Session, server.up PROVE Data(t)' /\ Ending(t)'
    <3>1. Data(t) /\ Messages(s2c, t)' = Messages(s2c, t) /\ (Cancelled(t) => Cancelled(t)')
      BY <1>1, <2>2, <2>8, CancelledAppend DEF Messages
    <3>2. CASE t = s
      <4>1. Cancelled(s)'
        BY <1>1, <2>2, CancelledAppend
      <4>2. \A i \in Messages(c2s, s)' : c2s'[i].req = "cancel"
        BY <1>1, <2>2, <2>4, <2>8, AppendElements DEF Messages, Nothing
      <4> QED
        BY <2>1, <3>1, <3>2, <4>1, <4>2 DEF Data, Ending
    <3>3. CASE t # s
      <4>1. sess'[t] = sess[t] /\ (Owned(t) => Owned(t)')
        BY <2>1, <3>3 DEF Others, Owned
      <4>2. \A i \in Messages(c2s, t)' : i \in Messages(c2s, t) /\ c2s'[i] = c2s[i]
        BY <1>1, <2>2, <3>3, AppendElements DEF Messages
      <4> QED
        BY <2>3, <3>1, <3>3, <4>1, <4>2 DEF Data, Ending
    <3> QED
      BY <3>2, <3>3
  <2> QED
    BY <2>5, <2>6, <2>7, <2>8
<1>2. CASE /\ ~server.up /\ state' = "request" /\ call' = NoCall
           /\ sess' = [sess EXCEPT ![s].life = "gone"] /\ UNCHANGED c2s
  <2>1. PICK life \in {"live", "gone"} : life = "gone"
    OBVIOUS
  <2> QED
    BY <1>2, <2>1, SendFailInv
<1> QED
  BY <1>1, <1>2 DEF Send

LEMMA CallerInv ==
  ASSUME ProtocolInv, NEW s \in Session, Caller(s)
  PROVE  ProtocolInv'
<1> USE DEF ProtocolInv, Types
<1>1. sess[s] \in SessionRecord /\ Life(s) /\ Sync(s) /\ (Alive => Known(s))
  OBVIOUS
<1>1a. call.op = "none" /\ sess[s].life \in {"none", "live"} /\ ~sess[s].stale
  <2>1. call.op = "none" /\ sess[s].life \in {"none", "live"}
    BY DEF Caller, SessionNew, SessionOpen, SessionRequest, SessionRequestAsync, CanRequest,
           SessionResponse, SessionClose, SessionFree, Ready
  <2> QED
    BY <1>1, <2>1 DEF Life
<1>2. CASE SessionNew(s)
  <2> DEFINE listed == s \in Async
  <2>0. listed \in BOOLEAN
    OBVIOUS
  <2>1. /\ sess' = [sess EXCEPT ![s].life = "live", ![s].listed = listed]
        /\ call' = call /\ call.op = "none" /\ sess[s].life = "none"
    BY <1>2 DEF SessionNew
  <2> HIDE DEF listed
  <2>2. /\ Others(s) /\ call' \in CallRecord
        /\ sess'[s].queued = sess[s].queued /\ sess'[s].stored = sess[s].stored
        /\ sess'[s].open = sess[s].open /\ sess'[s].msg = sess[s].msg
        /\ sess'[s].sent = sess[s].sent /\ sess'[s].life = "live" /\ sess'[s].listed = listed
        /\ sess'[s].stale = sess[s].stale
    BY <1>1, <2>0, <2>1 DEF Others, SessionRecord
  <2>3. Life(s)' /\ Known(s)' /\ ~Owned(s)
    BY <1>1, <1>1a, <2>1, <2>2 DEF Life, Known, Owned, listed
  <2>4. Calls'
    <3>1. \A t \in Session : sess[t].stale => sess'[t].stale
      BY <2>2 DEF Others
    <3> QED
      BY <1>2, <2>1, <3>1 DEF Calls, Waiting, SessionNew
  <2> QED
    BY <1>1a, <1>2, <2>1, <2>2, <2>3, <2>4, QuietInv DEF SessionNew
<1>3. CASE SessionOpen(s)
  <2> DEFINE rec == [sess[s] EXCEPT !.open = TRUE, !.listed = TRUE, !.sent = 1]
  <2>1. /\ rec \in SessionRecord /\ rec.stored = sess[s].stored /\ rec.msg = sess[s].msg
        /\ rec.life = sess[s].life /\ rec.sent = 1 /\ rec.listed /\ rec.open /\ ~rec.stale
    BY <1>1, <1>1a DEF SessionRecord
  <2>2. /\ state = "idle" /\ call.op = "none" /\ ~sess[s].queued /\ ~sess[s].open
        /\ sess[s].life = "live"
    BY <1>1, <1>3 DEF SessionOpen, Ready, Life
  <2>3. Send(s, "open", "open", rec) /\ UNCHANGED <<s2c, server, check, errors, losses>>
    BY <1>3 DEF SessionOpen
  <2> HIDE DEF rec
  <2> QED
    BY <1>1a, <2>1, <2>2, <2>3, SendInv
<1>4. CASE SessionRequest(s) \/ SessionRequestAsync(s)
  <2> DEFINE sent == sess[s].sent + 1
             rec == [sess[s] EXCEPT !.sent = sent]
  <2>0. sent \in Nat /\ sent # 0
    BY <1>1 DEF SessionRecord
  <2> HIDE DEF sent
  <2>1. /\ rec \in SessionRecord /\ rec.stored = sess[s].stored /\ rec.msg = sess[s].msg
        /\ rec.life = sess[s].life /\ rec.sent # 0 /\ rec.listed = sess[s].listed
        /\ rec.open = sess[s].open /\ ~rec.stale
    BY <1>1, <1>1a, <2>0 DEF SessionRecord
  <2>2. state = "idle" /\ call.op = "none" /\ ~sess[s].queued /\ sess[s].life = "live"
    BY <1>4 DEF SessionRequest, SessionRequestAsync, CanRequest, Ready
  <2>3. UNCHANGED <<s2c, server, check, errors, losses>>
    BY <1>4 DEF SessionRequest, SessionRequestAsync
  <2>4. \/ Send(s, "process", "request", rec)
        \/ Send(s, "process", "none", rec) /\ s \in Async
    BY <1>4 DEF SessionRequest, SessionRequestAsync, sent
  <2>5. s \in Async \/ rec.open => rec.listed
    BY <1>1, <2>1, <2>2 DEF Life
  <2> HIDE DEF rec
  <2>6. CASE Send(s, "process", "request", rec)
    BY <1>1a, <2>1, <2>2, <2>3, <2>5, <2>6, SendInv
  <2>7. CASE Send(s, "process", "none", rec) /\ s \in Async
    BY <1>1a, <2>1, <2>2, <2>3, <2>5, <2>7, SendInv
  <2> QED
    BY <2>4, <2>6, <2>7
<1>5. CASE SessionResponse(s)
  <2>1. /\ call' = [op |-> "response", s |-> s] /\ call.op = "none" /\ state = "idle"
        /\ sess[s].queued /\ sess' = sess
        /\ UNCHANGED <<state, c2s, s2c, server, check, errors, losses>>
    BY <1>5 DEF SessionResponse, Ready
  <2>2. Others(s) /\ call' \in CallRecord /\ sess[s].life = "live" /\ (Owned(s) => Owned(s)')
    BY <1>5, <2>1 DEF Others, CallRecord, Owned, SessionResponse, Ready
  <2>3. Life(s)' /\ Known(s)' /\ Calls'
    BY <1>1, <1>1a, <2>1, <2>2 DEF Life, Known, Calls, Waiting
  <2> QED
    BY <1>1a, <2>1, <2>2, <2>3, QuietInv
<1>6. CASE SessionClose(s)
  <2>1. /\ state = "idle" /\ call.op = "none" /\ ~sess[s].queued /\ sess[s].open
        /\ sess[s].life = "live"
        /\ Send(s, "close", "close", sess[s]) /\ UNCHANGED <<s2c, server, check, errors, losses>>
    BY <1>6 DEF SessionClose, Ready
  <2>2. sess[s].sent # 0 /\ sess[s].listed
    BY <1>1, <2>1 DEF Life
  <2> QED
    BY <1>1, <1>1a, <2>1, <2>2, SendInv
<1>7. CASE SessionFree(s)
  <2> DEFINE drain == sess[s].queued /\ ~sess[s].stored
  <2>1. call.op = "none" /\ sess[s].life = "live"
        /\ UNCHANGED <<s2c, server, check, errors, losses>>
    BY <1>7 DEF SessionFree
  <2>2. CASE /\ sess[s].listed /\ (drain \/ sess[s].open) /\ state # "idle"
             /\ sess' = [sess EXCEPT ![s].life = "gone"] /\ UNCHANGED <<state, call, c2s>>
    <3>1. /\ Others(s) /\ call' \in CallRecord
          /\ sess'[s].queued = sess[s].queued /\ sess'[s].stored = sess[s].stored
          /\ sess'[s].open = sess[s].open /\ sess'[s].msg = sess[s].msg
          /\ sess'[s].sent = sess[s].sent /\ sess'[s].life = "gone"
          /\ sess'[s].listed /\ sess'[s].stale = sess[s].stale
      BY <1>1, <2>2 DEF Others, SessionRecord
    <3>2. Life(s)' /\ ~Alive /\ (Owned(s) => Owned(s)')
      BY <1>1, <1>1a, <3>1, <2>2 DEF Life, Alive, Owned
    <3>3. Calls'
      <4>1. \A t \in Session : sess[t].stale => sess'[t].stale
        BY <3>1 DEF Others
      <4> QED
        BY <2>1, <2>2, <4>1 DEF Calls, Waiting
    <3> QED
      BY <1>1a, <2>1, <2>2, <3>1, <3>2, <3>3, QuietInv
  <2>3. CASE /\ sess[s].listed /\ drain /\ state = "idle"
             /\ call' = [op |-> "drain", s |-> s] /\ UNCHANGED <<sess, state, c2s>>
    <3>1. Others(s) /\ call' \in CallRecord /\ (Owned(s) => Owned(s)')
      BY <2>3 DEF Others, CallRecord, Owned
    <3>2. Life(s)' /\ Known(s)' /\ Calls'
      BY <1>1, <1>1a, <2>1, <2>3 DEF Life, Known, Calls, Waiting
    <3> QED
      BY <1>1a, <2>1, <2>3, <3>1, <3>2, QuietInv
  <2>4. CASE /\ sess[s].listed /\ ~drain /\ sess[s].open /\ state = "idle"
             /\ Send(s, "cancel", "cancel", [sess[s] EXCEPT !.stale = sess[s].stored])
    <3> DEFINE rec == [sess[s] EXCEPT !.stale = sess[s].stored]
    <3>1. sess[s].sent # 0
      BY <1>1, <2>4 DEF Life
    <3>2. CASE sess[s].stored
      BY <1>1a, <2>1, <2>4, <3>2, StaleSendInv
    <3>3. CASE ~sess[s].stored
      <4>1. /\ rec \in SessionRecord /\ ~rec.stale /\ rec.stored = sess[s].stored
            /\ rec.msg = sess[s].msg /\ rec.life = sess[s].life /\ rec.sent = sess[s].sent
            /\ rec.listed = sess[s].listed /\ rec.open = sess[s].open
        BY <1>1, <3>3 DEF SessionRecord
      <4>2. Send(s, "cancel", "cancel", rec) /\ ~sess[s].queued
        BY <2>4, <3>3
      <4> HIDE DEF rec
      <4> QED
        BY <1>1a, <2>1, <2>4, <3>1, <4>1, <4>2, SendInv
    <3> QED
      BY <3>2, <3>3
  <2>5. CASE /\ ~(sess[s].listed /\ (drain \/ sess[s].open))
             /\ sess' = [sess EXCEPT ![s].life = "gone", ![s].listed = FALSE]
             /\ UNCHANGED <<state, call, c2s>>
    <3>1. /\ Others(s) /\ call' \in CallRecord
          /\ sess'[s].queued = sess[s].queued /\ sess'[s].stored = sess[s].stored
          /\ sess'[s].open = sess[s].open /\ sess'[s].msg = sess[s].msg
          /\ sess'[s].sent = sess[s].sent /\ sess'[s].life = "gone"
          /\ sess'[s].stale = sess[s].stale
      BY <1>1, <2>5 DEF Others, SessionRecord
    <3>2. Life(s)' /\ ~Owned(s)
      BY <1>1, <1>1a, <2>1, <2>5, <3>1 DEF Life, Owned
    <3>3. Alive => Known(s)'
      BY <1>1, <2>1, <2>5, <3>1 DEF Known, Waiting
    <3>4. Calls'
      <4>1. \A t \in Session : sess[t].stale => sess'[t].stale
        BY <3>1 DEF Others
      <4> QED
        BY <2>1, <2>5, <4>1 DEF Calls, Waiting
    <3> QED
      BY <1>1a, <2>1, <2>5, <3>1, <3>2, <3>3, <3>4, QuietInv
  <2> QED
    BY <1>7, <2>2, <2>3, <2>4, <2>5 DEF SessionFree
<1> QED
  BY <1>2, <1>3, <1>4, <1>5, <1>6, <1>7 DEF Caller

(***************************************************************************)
(* Responses                                                               *)
(***************************************************************************)
LEMMA ResponseInv ==
  ASSUME ProtocolInv, Response
  PROVE  ProtocolInv'
<1> USE DEF ProtocolInv, Types
<1>1. CASE ResponseStored
  <2>1. /\ Waiting /\ sess[call.s].stored /\ Found(sess[call.s].msg)
        /\ UNCHANGED <<state, c2s, s2c, server, check, errors, losses>>
    BY <1>1 DEF ResponseStored
  <2>2. call.s \in Session /\ Alive /\ sess[call.s].queued
    BY <2>1 DEF Calls, Waiting, Alive
  <2>0. SUFFICES ASSUME ~sess[call.s].stale PROVE ProtocolInv'
    BY <2>1, StaleFoundInv
  <2>3. /\ Sync(call.s) /\ (server.up => Data(call.s) /\ Ending(call.s))
        /\ sess[call.s].msg \in Message
    BY <2>2 DEF SessionRecord, Alive
  <2>4. Nothing(s2c', call.s)
    BY <2>0, <2>1, <2>3 DEF Sync
  <2>5. server.up => /\ Nothing(c2s, call.s) /\ (sess[call.s].msg.close => call.s \notin server.sessions)
                     /\ call.op \notin {"close", "cancel"}
    BY <2>0, <2>1, <2>2, <2>3 DEF Sync, Data, Ending
  <2>6. FatalLast'
    BY <2>1 DEF FatalLast
  <2>7. \A t \in Session \ {call.s} :
          (Nothing(s2c, t) => Nothing(s2c, t)') /\ (One(s2c, t) => One(s2c, t)')
    BY <2>1 DEF Nothing, One, Messages
  <2>8. server.up => \A t \in Session : \A i \in Messages(s2c, t)' : s2c'[i].close => t \notin server.sessions
    BY <2>1, <2>2 DEF Data, Messages, Alive
  <2> QED
    BY <2>0, <2>1, <2>3, <2>4, <2>5, <2>6, <2>7, <2>8, FoundInv
<1>2. CASE ResponseOwn
  <2> DEFINE m == Head(s2c)
  <2>1. /\ Waiting /\ ~sess[call.s].stored /\ s2c # <<>> /\ m.s \in {Fatal, call.s}
        /\ Found(m) /\ s2c' = Tail(s2c) /\ UNCHANGED <<state, c2s, server, check, errors, losses>>
    BY <1>2 DEF ResponseOwn
  <2>2. call.s \in Session /\ Alive /\ sess[call.s].queued
    BY <2>1 DEF Calls, Waiting, Alive
  <2>3. Sync(call.s) /\ (server.up => Data(call.s) /\ Ending(call.s)) /\ ~sess[call.s].stale
    BY <2>1, <2>2 DEF Alive, Calls, Waiting, Life
  <2>4. /\ m \in Message /\ m = s2c[1] /\ s2c' \in Seq(Message) /\ 1 \in DOMAIN s2c
        /\ \A i \in DOMAIN s2c' : i + 1 \in DOMAIN s2c /\ s2c'[i] = s2c[i + 1] /\ i \in Nat /\ i >= 1
        /\ Len(s2c') = Len(s2c) - 1 /\ Len(s2c) \in Nat
    BY <2>1, TailElements
  <2> HIDE DEF m
  <2>5. FatalLast'
    BY <2>1, <2>4 DEF FatalLast
  <2>6. ASSUME m.s = call.s
        PROVE  /\ Nothing(s2c', call.s)
               /\ server.up => Nothing(c2s, call.s) /\ (m.close => call.s \notin server.sessions)
               /\ server.up /\ call.op \in {"close", "cancel"} => m.type = "error" \/ m.close
    <3>1. One(s2c, call.s)
      BY <2>1, <2>3, <2>6, TailMessages DEF Sync, m
    <3>2. Nothing(s2c', call.s)
      BY <2>1, <2>6, <3>1, TailMessages DEF m
    <3>3. server.up => Nothing(c2s, call.s) /\ (m.close => call.s \notin server.sessions)
      BY <2>1, <2>2, <2>3, <2>4, <2>6, <3>1, OneIsSomething DEF Sync, Data, Messages
    <3>4. server.up /\ call.op \in {"close", "cancel"} => m.type = "error" \/ m.close
      BY <2>3, <2>4, <2>6 DEF Ending, Messages, Message
    <3> QED
      BY <3>2, <3>3, <3>4
  <2>7. ASSUME m.s = Fatal
        PROVE  ~server.up /\ Nothing(s2c', call.s)
    <3>1. ~server.up /\ Len(s2c) = 1
      BY <2>4, <2>7 DEF FatalLast
    <3>2. DOMAIN s2c' = {}
      BY <2>1, <3>1, TailElements
    <3> QED
      BY <3>1, <3>2 DEF Nothing, Messages
  <2>8. \A t \in Session \ {call.s} :
          (Nothing(s2c, t) => Nothing(s2c, t)') /\ (One(s2c, t) => One(s2c, t)')
    BY <2>1, TailMessages, ProtocolAssumption DEF m
  <2>9. server.up => \A t \in Session : \A i \in Messages(s2c, t)' : s2c'[i].close => t \notin server.sessions
    BY <2>2, <2>4 DEF Data, Messages, Alive
  <2>10. /\ Nothing(s2c', call.s)
         /\ server.up => Nothing(c2s, call.s) /\ (m.close => call.s \notin server.sessions)
         /\ server.up /\ call.op \in {"close", "cancel"} => m.type = "error" \/ m.close
    BY <2>1, <2>6, <2>7
  <2> QED
    BY <2>1, <2>3, <2>4, <2>5, <2>8, <2>9, <2>10, FoundInv
<1>3. CASE ResponseOther
  <2> DEFINE m == Head(s2c)
  <2>1. /\ Waiting /\ ~sess[call.s].stored /\ s2c # <<>> /\ m.s \notin {Fatal, call.s}
        /\ s2c' = Tail(s2c) /\ UNCHANGED <<c2s, server, errors, losses>>
    BY <1>3 DEF ResponseOther
  <2>2. call.s \in Session /\ Alive /\ sess[call.s].queued
    BY <2>1 DEF Calls, Waiting, Alive
  <2>3. /\ m \in Message /\ m = s2c[1] /\ s2c' \in Seq(Message) /\ 1 \in DOMAIN s2c
        /\ \A i \in DOMAIN s2c' : i + 1 \in DOMAIN s2c /\ s2c'[i] = s2c[i + 1] /\ i \in Nat /\ i >= 1
        /\ Len(s2c') = Len(s2c) - 1 /\ Len(s2c) \in Nat
    BY <2>1, TailElements
  <2>4. m.s \in Session
    BY <2>1, <2>3 DEF Message
  <2>5. One(s2c, m.s) /\ Nothing(s2c', m.s)
    BY <2>1, <2>4, TailMessages DEF Sync, StaleSync
  <2>6. /\ sess[m.s].stale \/ (sess[m.s].queued /\ ~sess[m.s].stored /\ sess[m.s].listed)
        /\ server.up => Nothing(c2s, m.s)
    BY <2>1, <2>2, <2>4, <2>5, OneIsSomething DEF Sync, StaleSync, Known
  <2>6a. sess[m.s].stale => ~sess[m.s].stored /\ sess[m.s].life = "gone"
    <3>1. SUFFICES ASSUME sess[m.s].stale
                   PROVE  ~sess[m.s].stored /\ sess[m.s].life = "gone"
      OBVIOUS
    <3>2. Life(m.s) /\ StaleSync(m.s)
      BY <2>4
    <3>3. sess[m.s].life = "gone"
      BY <2>1, <3>1, <3>2 DEF Life
    <3> QED
      BY <2>5, <3>1, <3>2, <3>3, OneIsSomething DEF StaleSync
  <2>6b. ~sess[call.s].stale
    BY <2>1, <2>2 DEF Calls, Waiting, Life
  <2>6c. ASSUME NEW t \in Session
         PROVE  /\ Nothing(c2s, t)' = Nothing(c2s, t) /\ One(c2s, t)' = One(c2s, t)
                /\ t # m.s => (Nothing(s2c, t) => Nothing(s2c, t)') /\ (One(s2c, t) => One(s2c, t)')
                /\ Messages(c2s, t)' = Messages(c2s, t) /\ Cancelled(t)' = Cancelled(t)
    <3>1. t # m.s => (Nothing(s2c, t) => Nothing(s2c, t)') /\ (One(s2c, t) => One(s2c, t)')
      BY <2>1, TailMessages
    <3> QED
      BY <2>1, <3>1 DEF Nothing, One, Messages, Cancelled
  <2>6d. ASSUME NEW t \in Session
         PROVE  \A i \in Messages(s2c, t)' : \E k \in Messages(s2c, t) : s2c'[i] = s2c[k]
    BY <2>3 DEF Messages
  <2>7. CASE sess[m.s].listed
    <3>1. sess' = [sess EXCEPT ![m.s].stored = TRUE, ![m.s].msg = m] /\ UNCHANGED <<state, call, check>>
      BY <1>3, <2>6, <2>6a, <2>7 DEF ResponseOther
    <3> DEFINE s == m.s
    <3>2. s \in Session /\ sess' = [sess EXCEPT ![s].stored = TRUE, ![s].msg = m]
      BY <2>4, <3>1
    <3> HIDE DEF m, s
    <3>3. /\ Others(s) /\ sess'[s].stored /\ sess'[s].msg = m
          /\ sess'[s].queued = sess[s].queued /\ sess'[s].listed = sess[s].listed
          /\ sess'[s].open = sess[s].open /\ sess'[s].life = sess[s].life
          /\ sess'[s].sent = sess[s].sent /\ sess'[s].stale = sess[s].stale
      <4>1. sess \in [Session -> SessionRecord]
        OBVIOUS
      <4> HIDE DEF ProtocolInv, Types
      <4> QED
        BY <2>3, <3>2, <4>1 DEF Others, SessionRecord
    <3>4. Types' /\ Requests' /\ FatalLast'
      BY <2>1, <2>3, <3>1, <3>3 DEF Others, Requests, FatalLast
    <3>5. Calls'
      <4>1. \A t \in Session : sess[t].stale => sess'[t].stale
        BY <3>3 DEF Others
      <4>2. sess'[call.s] = sess[call.s]
        BY <2>1, <2>2, <3>3 DEF Others, s
      <4> QED
        BY <2>1, <2>2, <3>1, <4>1, <4>2 DEF Calls, Waiting
    <3>6. ASSUME NEW t \in Session PROVE Life(t)' /\ Known(t)'
      <4>1. Life(t) /\ Known(t)
        BY <2>2
      <4>2. CASE t = s
        BY <2>6, <2>6a, <3>1, <3>3, <4>1, <4>2 DEF Life, Known, s
      <4>3. CASE t # s
        BY <3>1, <3>3, <4>1, <4>3 DEF Life, Known, Others, Waiting
      <4> QED
        BY <4>2, <4>3
    <3>7. ASSUME NEW t \in Session PROVE Sync(t)' /\ StaleSync(t)'
      <4>1. Sync(t) /\ StaleSync(t)
        OBVIOUS
      <4>2. CASE t = s
        BY <2>1, <2>5, <2>6, <2>6c, <3>3, <4>2 DEF Sync, StaleSync, s
      <4>3. CASE t # s
        BY <2>1, <2>6c, <3>3, <4>1, <4>3 DEF Sync, StaleSync, Others, s
      <4> QED
        BY <4>2, <4>3
    <3>8. ASSUME NEW t \in Session, server.up PROVE Data(t)' /\ Ending(t)'
      <4>1. Data(t) /\ Ending(t)
        BY <2>2, <3>8 DEF Alive
      <4>2. /\ sess'[t].open = sess[t].open /\ sess'[t].stale = sess[t].stale
            /\ sess'[t].life = sess[t].life /\ sess'[t].listed = sess[t].listed
        BY <3>3 DEF Others
      <4>3. sess'[t].stored /\ sess'[t].msg.close => t \notin server.sessions
        <5>1. CASE t = s
          BY <2>3, <3>3, <4>1, <5>1 DEF Data, Messages, s
        <5>2. CASE t # s
          BY <3>3, <4>1, <5>2 DEF Data, Others
        <5> QED
          BY <5>1, <5>2
      <4>4. Data(t)'
        BY <2>1, <2>6c, <2>6d, <4>1, <4>2, <4>3 DEF Data, Owned
      <4>5. call.s = t => sess'[t].stored = sess[t].stored
        BY <2>1, <3>3 DEF Others, s
      <4>6. Ending(t)'
        <5>1. SUFFICES ASSUME call.op \in {"close", "cancel"}, call.s = t, ~sess[t].stale
                       PROVE  /\ ~sess'[t].stored
                              /\ \A i \in Messages(c2s, t)' : c2s'[i].req \in {"close", "cancel"}
                              /\ \A i \in Messages(s2c, t)' : s2c'[i].type = "response" => s2c'[i].close
          BY <3>1, <4>2 DEF Ending
        <5>2. \A i \in Messages(s2c, t) : s2c[i].type = "response" => s2c[i].close
          BY <4>1, <5>1 DEF Ending
        <5>3. \A i \in Messages(s2c, t)' : s2c'[i].type = "response" => s2c'[i].close
          BY <2>6d, <5>2
        <5> QED
          BY <2>1, <2>6c, <4>1, <4>5, <5>1, <5>3 DEF Ending
      <4> QED
        BY <4>4, <4>6
    <3> QED
      BY <2>1, <3>4, <3>5, <3>6, <3>7, <3>8
  <2>8. CASE ~sess[m.s].listed
    <3>1. /\ check' = "unknown" /\ state' = "response" /\ call' = NoCall
          /\ sess' = [sess EXCEPT ![call.s].life = IF call.op \in {"drain", "cancel"} THEN "gone" ELSE @]
      BY <1>3, <2>8 DEF ResponseOther
    <3>2. PICK s \in Session : s = call.s /\ sess[s].life = "live" /\ sess[s] \in SessionRecord
      BY <2>1, <2>2 DEF Calls, Waiting
    <3>3. PICK life \in {"live", "gone"} : sess' = [sess EXCEPT ![s].life = life]
      <4>1. PICK life \in {"live", "gone"} : life = IF call.op \in {"drain", "cancel"} THEN "gone" ELSE sess[s].life
        BY <3>2
      <4> QED
        BY <3>1, <3>2, <4>1
    <3>4. /\ Others(s) /\ sess'[s].life \in {"live", "gone"}
          /\ sess'[s].queued = sess[s].queued /\ sess'[s].open = sess[s].open
          /\ sess'[s].listed = sess[s].listed /\ sess'[s].stored = sess[s].stored
          /\ sess'[s].sent = sess[s].sent /\ sess'[s].stale = sess[s].stale
          /\ sess'[s].msg = sess[s].msg
      BY <3>2, <3>3 DEF Others, SessionRecord
    <3>5. call' \in CallRecord /\ call'.op = "none"
      BY <3>1 DEF CallRecord, NoCall
    <3> HIDE DEF m
    <3>6. Types' /\ Requests' /\ FatalLast'
      BY <2>1, <2>2, <2>3, <3>1, <3>4, <3>5 DEF Others, Requests, FatalLast, Alive
    <3>7. Calls'
      <4>1. sess'[m.s].stale
        BY <2>4, <2>6, <2>8, <3>4 DEF Others
      <4> QED
        BY <2>1, <2>4, <3>1, <3>5, <4>1 DEF Calls, Waiting
    <3>8. ASSUME NEW t \in Session
          PROVE  /\ Life(t)' /\ Sync(t)' /\ StaleSync(t)'
                 /\ server.up => Data(t)' /\ Ending(t)'
      <4>1. Life(t) /\ Sync(t) /\ StaleSync(t) /\ (server.up => Data(t))
        BY <2>2 DEF Alive
      <4>2. /\ sess'[t].queued = sess[t].queued /\ sess'[t].open = sess[t].open
            /\ sess'[t].listed = sess[t].listed /\ sess'[t].stored = sess[t].stored
            /\ sess'[t].sent = sess[t].sent /\ sess'[t].stale = sess[t].stale
            /\ sess'[t].msg = sess[t].msg /\ (t # s => sess'[t].life = sess[t].life)
        BY <3>4 DEF Others
      <4>3. Life(t)' /\ (Owned(t) => Owned(t)')
        BY <2>6b, <3>2, <3>4, <4>1, <4>2 DEF Life, Owned, Others
      <4>4. Sync(t)' /\ StaleSync(t)'
        <5>1. CASE t = m.s
          <6>1. sess[t].stale /\ t # s /\ Nothing(s2c, t)' /\ (server.up => Nothing(c2s, t)')
            BY <2>5, <2>6, <2>6b, <2>6c, <2>8, <3>2, <5>1
          <6> QED
            BY <2>1, <4>2, <6>1 DEF Sync, StaleSync
        <5>2. CASE t # m.s
          <6>1. /\ sess[t].stale => sess'[t].life = sess[t].life
                /\ (Nothing(s2c, t) => Nothing(s2c, t)') /\ (One(s2c, t) => One(s2c, t)')
                /\ Nothing(c2s, t)' = Nothing(c2s, t) /\ One(c2s, t)' = One(c2s, t)
            BY <2>6b, <2>6c, <3>2, <4>2, <5>2
          <6> QED
            BY <2>1, <4>1, <4>2, <6>1 DEF Sync, StaleSync
        <5> QED
          BY <5>1, <5>2
      <4>5. server.up => Data(t)' /\ Ending(t)'
        BY <2>1, <2>6c, <2>6d, <3>5, <4>1, <4>2, <4>3 DEF Data, Ending
      <4> QED
        BY <4>3, <4>4, <4>5
    <3> QED
      BY <2>1, <3>1, <3>6, <3>7, <3>8 DEF Alive
  <2> QED
    BY <2>7, <2>8
<1>4. CASE ResponseEof
  <2> DEFINE s == call.s
             life == IF call.op \in {"drain", "cancel"} THEN "gone" ELSE sess[s].life
  <2>1. /\ Waiting /\ ~server.up /\ state' = "response" /\ call' = NoCall
        /\ sess' = [sess EXCEPT ![s].life = life]
        /\ UNCHANGED <<c2s, s2c, server, check, errors, losses>>
    BY <1>4 DEF ResponseEof
  <2>2. s \in Session /\ sess[s].life = "live" /\ ~sess[s].stale
    BY <1>4, <2>1 DEF Calls, Waiting, Life, ResponseEof
  <2>3. life \in {"none", "live", "gone"} /\ life \in {sess[s].life, "gone"}
    BY <2>2 DEF SessionRecord
  <2> HIDE DEF s, life
  <2>4. /\ Others(s) /\ sess'[s].life = life
        /\ sess'[s].queued = sess[s].queued /\ sess'[s].open = sess[s].open
        /\ sess'[s].listed = sess[s].listed /\ sess'[s].stored = sess[s].stored
        /\ sess'[s].sent = sess[s].sent /\ sess'[s].stale = sess[s].stale
    BY <2>1, <2>2, <2>3 DEF Others, SessionRecord
  <2>5. call' \in CallRecord /\ call'.op = "none"
    BY <2>1 DEF CallRecord, NoCall
  <2>6. Types' /\ Requests' /\ FatalLast'
    BY <2>1, <2>4, <2>5 DEF Others, Requests, FatalLast, Waiting
  <2>7. Calls'
    <3>1. \A t \in Session : sess[t].stale => sess'[t].stale
      BY <2>4 DEF Others
    <3> QED
      BY <2>1, <2>5, <3>1 DEF Calls, Waiting
  <2>8. ASSUME NEW t \in Session PROVE Life(t)' /\ Sync(t)' /\ StaleSync(t)'
    <3>1. Life(t) /\ Sync(t) /\ StaleSync(t)
      OBVIOUS
    <3>2. CASE t = s
      BY <2>1, <2>2, <2>3, <2>4, <3>1, <3>2, SameMessages DEF Life, Sync, StaleSync
    <3>3. CASE t # s
      BY <2>1, <2>2, <2>4, <3>1, <3>3, SameMessages DEF Life, Sync, StaleSync, Others, s
    <3> QED
      BY <3>2, <3>3
  <2> QED
    BY <2>1, <2>6, <2>7, <2>8 DEF Alive
<1>5. CASE SessionFreeCancel
  <2>1. /\ call.op = "drained" /\ Send(call.s, "cancel", "cancel", sess[call.s])
        /\ UNCHANGED <<s2c, server, check, errors, losses>>
    BY <1>5 DEF SessionFreeCancel
  <2>2. /\ call.s \in Session /\ state = "idle" /\ ~sess[call.s].queued /\ sess[call.s].open
    BY <2>1 DEF Calls
  <2>3. /\ sess[call.s].sent # 0 /\ sess[call.s].life = "live" /\ sess[call.s] \in SessionRecord
        /\ ~sess[call.s].stale /\ sess[call.s].listed
    BY <2>1, <2>2 DEF Life, Calls
  <2> QED
    BY <2>1, <2>2, <2>3, SendInv
<1> QED
  BY <1>1, <1>2, <1>3, <1>4, <1>5 DEF Response

(* protocolClientFreeResource().                                           *)
LEMMA ClientFreeInv ==
  ASSUME ProtocolInv, ClientFree
  PROVE  ProtocolInv'
<1> USE DEF ProtocolInv, Types
<1> DEFINE m == [s |-> Fatal, req |-> "exit", need |-> FALSE]
<1>1. /\ c2s' = Append(c2s, m) /\ state' = "idle" /\ call' = [op |-> "over", s |-> Fatal]
      /\ sess' = [s \in Session |-> [sess[s] EXCEPT !.life = "gone", !.listed = FALSE]]
      /\ UNCHANGED <<s2c, server, check, errors, losses>>
  BY DEF ClientFree
<1>2. m \in RequestRecord /\ m.req = "exit"
  BY DEF RequestRecord
<1> HIDE DEF m
<1>3. ASSUME NEW s \in Session
      PROVE  /\ sess'[s] \in SessionRecord /\ sess'[s].life = "gone"
             /\ sess'[s].sent = sess[s].sent /\ sess'[s].queued = sess[s].queued
             /\ sess'[s].open = sess[s].open /\ sess'[s].stored = sess[s].stored
             /\ sess'[s].stale = sess[s].stale
  <2>1. PICK r \in SessionRecord : r = sess[s]
    OBVIOUS
  <2>2. sess'[s] = [r EXCEPT !.life = "gone", !.listed = FALSE]
    BY <1>1, <2>1
  <2> HIDE DEF ProtocolInv, Types
  <2> QED
    BY <2>1, <2>2 DEF SessionRecord
<1>4. sess' \in [Session -> SessionRecord]
  BY <1>1, <1>3
<1>5. call' \in CallRecord /\ call'.op = "over"
  BY <1>1 DEF CallRecord
<1>6. Types'
  BY <1>1, <1>2, <1>4, <1>5, AppendElements
<1>7. Requests' /\ FatalLast'
  <2>1. FatalLast'
    BY <1>1 DEF FatalLast
  <2>2. /\ DOMAIN c2s = 1..Len(c2s) /\ Len(c2s) \in Nat /\ DOMAIN c2s' = 1..(Len(c2s) + 1)
        /\ \A i \in 1..Len(c2s) : c2s'[i] = c2s[i]
        /\ c2s'[Len(c2s) + 1] = m
    <3>1. c2s \in Seq(RequestRecord) /\ m \in RequestRecord /\ c2s' = Append(c2s, m)
      BY <1>1, <1>2
    <3> HIDE DEF ProtocolInv, Types
    <3> QED
      BY <3>1, AppendElements
  <2>3. ASSUME NEW i \in DOMAIN c2s', c2s'[i].req # "exit" PROVE c2s'[i].s \in Session
    BY <1>2, <2>2, <2>3 DEF Requests
  <2> QED
    BY <1>5, <2>1, <2>3 DEF Requests
<1>8. Calls'
  <2>1. \A s \in Session : sess[s].stale => sess'[s].stale
    BY <1>3
  <2> QED
    BY <1>1, <1>5, <2>1 DEF Calls, Waiting
<1>9. ASSUME NEW s \in Session PROVE Life(s)' /\ Sync(s)' /\ StaleSync(s)'
  <2>1. Life(s) /\ Sync(s) /\ StaleSync(s)
    OBVIOUS
  <2>2. sess[s].stale => sess[s].life = "gone"
    BY <2>1 DEF Life, ClientFree
  <2>3. m.s = Fatal /\ s # Fatal
    BY ProtocolAssumption DEF m
  <2>4. /\ (Nothing(c2s, s) => Nothing(c2s, s)') /\ (One(c2s, s) => One(c2s, s)')
        /\ Nothing(s2c, s)' = Nothing(s2c, s) /\ One(s2c, s)' = One(s2c, s)
    <3>1. (Nothing(c2s, s) => Nothing(c2s, s)') /\ (One(c2s, s) => One(c2s, s)')
      BY <1>1, <1>2, <2>3, AppendMessages
    <3> QED
      BY <1>1, <3>1 DEF Nothing, One, Messages
  <2>5. Life(s)'
    BY <1>3, <2>1 DEF Life
  <2> QED
    BY <1>1, <1>3, <2>1, <2>2, <2>4, <2>5 DEF Sync, StaleSync
<1> QED
  BY <1>5, <1>6, <1>7, <1>8, <1>9 DEF Alive

(***************************************************************************)
(* The server                                                              *)
(***************************************************************************)

(* Each response of protocolServerProcess(). A session is kept only when   *)
(* it was kept before or is opened, and not when the response says that it *)
(* is closed.                                                              *)
LEMMA RespondInv ==
  ASSUME ProtocolInv, server.up, c2s # <<>>, Head(c2s).req # "exit", errors' \in Nat,
         NEW type \in {"response", "error"}, NEW close \in BOOLEAN,
         NEW sessions \in SUBSET Session,
         Respond(Head(c2s), type, close, sessions),
         \A t \in Session \ {Head(c2s).s} : t \in sessions <=> t \in server.sessions,
         Head(c2s).s \in sessions => Head(c2s).s \in server.sessions \/ Head(c2s).req = "open",
         close /\ call.op # "over" => Head(c2s).s \notin sessions,
         Head(c2s).req = "cancel" => Head(c2s).s \notin sessions,
         Head(c2s).req \in {"close", "cancel"} => type = "error" \/ close
  PROVE  ProtocolInv'
<1> USE DEF ProtocolInv, Types
<1>1. PICK m \in RequestRecord : m = Head(c2s) /\ m = c2s[1]
  BY TailElements
<1>2. /\ 1 \in DOMAIN c2s /\ Tail(c2s) \in Seq(RequestRecord)
      /\ \A i \in DOMAIN Tail(c2s) :
           i + 1 \in DOMAIN c2s /\ Tail(c2s)[i] = c2s[i + 1] /\ i \in Nat /\ i >= 1
  BY TailElements
<1>3. m.s \in Session /\ m.req \in {"open", "process", "close", "cancel"}
  BY <1>1, <1>2 DEF Requests, RequestRecord
<1>4. PICK s \in Session : s = m.s
  BY <1>3
<1> DEFINE r == [s |-> s, req |-> m.req, type |-> type, close |-> close]
<1>5. /\ s2c' = Append(s2c, r) /\ server' = [server EXCEPT !.sessions = sessions]
      /\ c2s' = Tail(c2s) /\ UNCHANGED <<sess, state, call, check, losses>>
  BY <1>1, <1>4 DEF Respond, clientVars
<1>6. r \in Message /\ r.s = s /\ r.close = close /\ r.type = type
  BY <1>3 DEF Message
<1>7. server' \in [up : BOOLEAN, sessions : SUBSET Session] /\ server'.up /\ server'.sessions = sessions
  BY <1>5
<1> HIDE DEF r
<1>8. /\ s2c' \in Seq(Message) /\ Len(s2c) \in Nat /\ Len(s2c') = Len(s2c) + 1
      /\ DOMAIN s2c = 1..Len(s2c) /\ DOMAIN s2c' = 1..(Len(s2c) + 1)
      /\ \A i \in 1..Len(s2c) : s2c'[i] = s2c[i]
      /\ s2c'[Len(s2c) + 1] = r
  BY <1>5, <1>6, AppendElements
<1>9. Types'
  BY <1>2, <1>5, <1>7, <1>8
<1>10. Requests'
  BY <1>2, <1>5 DEF Requests
<1>11. FatalLast'
  BY <1>6, <1>7, <1>8, ProtocolAssumption DEF FatalLast
<1>12. Calls' /\ \A t \in Session : Life(t)'
  BY <1>5, <1>7 DEF Calls, Waiting, Life
<1>13. 1 \in Messages(c2s, s)
  BY <1>1, <1>2, <1>4 DEF Messages
<1>14. One(c2s, s) /\ Nothing(s2c, s)
  BY <1>13, OneIsSomething DEF Sync, StaleSync, Nothing
<1>15. Nothing(c2s', s) /\ One(s2c', s)
  BY <1>1, <1>4, <1>5, <1>6, <1>14, AppendMessages, TailMessages
<1>16. ASSUME NEW t \in Session PROVE Sync(t)' /\ StaleSync(t)'
  <2>0. Sync(t) /\ StaleSync(t)
    OBVIOUS
  <2>1. CASE t = s
    <3>1. ~sess[s].stale => sess[s].queued /\ ~sess[s].stored
      BY <1>14, <2>0, <2>1, OneIsSomething DEF Sync
    <3>2. sess[s].stale => ~(sess[s].stored /\ sess[s].life = "gone")
      BY <1>14, <2>0, <2>1, OneIsSomething DEF StaleSync
    <3> QED
      BY <1>5, <1>15, <2>1, <3>1, <3>2 DEF Sync, StaleSync
  <2>2. CASE t # s
    <3>1. /\ Nothing(c2s, t) => Nothing(c2s, t)'
          /\ One(c2s, t) => One(c2s, t)'
          /\ Nothing(s2c, t) => Nothing(s2c, t)'
          /\ One(s2c, t) => One(s2c, t)'
      BY <1>1, <1>4, <1>5, <1>6, <2>2, AppendMessages, TailMessages
    <3> QED
      BY <1>5, <1>7, <2>0, <3>1 DEF Sync, StaleSync
  <2> QED
    BY <2>1, <2>2
<1>17. ASSUME Alive, NEW t \in Session PROVE Known(t)'
  BY <1>5, <1>17 DEF Known, Waiting
<1>18. ASSUME call.op # "over", NEW t \in Session PROVE Data(t)' /\ Ending(t)'
  <2>1. Data(t) /\ Ending(t) /\ sess'[t] = sess[t] /\ (Owned(t) => Owned(t)')
    BY <1>5, <1>18 DEF Owned
  <2>2. CASE t = s
    <3>1. Messages(c2s, s)' = {}
      BY <1>15 DEF Nothing, Messages
    <3>2. \A i \in Messages(s2c, s)' : s2c'[i] = r
      <4>1. \A i \in 1..Len(s2c) : s2c[i].s # s
        BY <1>8, <1>14 DEF Nothing, Messages
      <4> QED
        BY <1>8, <4>1 DEF Messages
    <3>3. ASSUME s \in sessions PROVE Owned(s) /\ ~sess[s].stale
      <4>1. m.req # "cancel" /\ (s \in server.sessions \/ m.req = "open")
        BY <1>1, <1>4, <3>3
      <4>2. ~Cancelled(s)
        <5>1. Messages(c2s, s) = {1}
          BY <1>13, <1>14 DEF One
        <5> QED
          BY <1>1, <4>1, <5>1 DEF Cancelled, Messages
      <4> QED
        BY <1>1, <1>13, <2>1, <2>2, <4>1, <4>2 DEF Data
    <3>4. sess[s].stored /\ sess[s].msg.close => s \notin sessions
      <4>1. s \in sessions => ~sess[s].stored
        BY <1>14, <3>3, OneIsSomething DEF Sync
      <4> QED
        BY <4>1
    <3>5. Data(s)'
      <4>1. close => s \notin sessions
        BY <1>1, <1>4, <1>18
      <4>2. \A i \in Messages(s2c, s)' : s2c'[i].close => s \notin sessions
        BY <1>6, <3>2, <4>1
      <4>3. Owned(s)' = Owned(s) /\ sess'[s] = sess[s]
        BY <1>5 DEF Owned
      <4> QED
        BY <1>7, <3>1, <3>3, <3>4, <4>2, <4>3 DEF Data
    <3>6. Ending(s)'
      <4>1. SUFFICES ASSUME call.op \in {"close", "cancel"}, call.s = s, ~sess[s].stale
                     PROVE  ~sess[s].stored /\ (type = "response" => close)
        BY <1>5, <1>6, <3>1, <3>2 DEF Ending
      <4>2. ~sess[s].stored /\ m.req \in {"close", "cancel"}
        BY <1>1, <1>13, <2>1, <2>2, <4>1 DEF Ending
      <4> QED
        BY <1>1, <4>2
    <3> QED
      BY <2>2, <3>5, <3>6
  <2>3. CASE t # s
    <3>1. t \in sessions <=> t \in server.sessions
      BY <1>1, <1>4, <2>3
    <3>2. \A i \in Messages(c2s, t)' : \E k \in Messages(c2s, t) : c2s'[i] = c2s[k]
      BY <1>2, <1>5 DEF Messages
    <3>3. \A i \in Messages(s2c, t)' : i \in Messages(s2c, t) /\ s2c'[i] = s2c[i]
      BY <1>6, <1>8, <2>3 DEF Messages
    <3>4. Cancelled(t) => Cancelled(t)'
      <4>1. SUFFICES ASSUME NEW i \in DOMAIN c2s, c2s[i].s = t, c2s[i].req = "cancel" PROVE Cancelled(t)'
        BY DEF Cancelled
      <4>2. i # 1 /\ i - 1 \in DOMAIN c2s' /\ c2s'[i - 1] = c2s[i]
        BY <1>1, <1>4, <1>5, <2>3, <4>1, TailElements
      <4> QED
        BY <4>1, <4>2 DEF Cancelled
    <3>5. Data(t)'
      BY <1>7, <2>1, <3>1, <3>2, <3>3, <3>4 DEF Data
    <3>6. Ending(t)'
      <4>1. SUFFICES ASSUME call.op \in {"close", "cancel"}, call.s = t, ~sess[t].stale
                     PROVE  /\ ~sess[t].stored
                            /\ \A i \in Messages(c2s, t)' : c2s'[i].req \in {"close", "cancel"}
                            /\ \A i \in Messages(s2c, t)' : s2c'[i].type = "response" => s2c'[i].close
        BY <1>5 DEF Ending
      <4>2. /\ ~sess[t].stored
            /\ \A i \in Messages(c2s, t) : c2s[i].req \in {"close", "cancel"}
            /\ \A i \in Messages(s2c, t) : s2c[i].type = "response" => s2c[i].close
        BY <2>1, <4>1 DEF Ending
      <4>3. \A i \in Messages(c2s, t)' : c2s'[i].req \in {"close", "cancel"}
        BY <3>2, <4>2
      <4> QED
        BY <3>3, <4>2, <4>3
    <3> QED
      BY <3>5, <3>6
  <2> QED
    BY <2>2, <2>3
<1> QED
  BY <1>5, <1>9, <1>10, <1>11, <1>12, <1>16, <1>17, <1>18 DEF Alive

LEMMA ServerInv ==
  ASSUME ProtocolInv, Server
  PROVE  ProtocolInv'
<1> USE DEF ProtocolInv, Types
<1> DEFINE m == Head(c2s)
<1>1. server.up /\ c2s # <<>>
  BY DEF Server, ServerOpen, ServerProcess, ServerClose, ServerCancel, ServerError, ServerExit, Serves
<1>2. /\ m \in RequestRecord /\ m = c2s[1] /\ 1 \in DOMAIN c2s /\ Tail(c2s) \in Seq(RequestRecord)
      /\ \A i \in DOMAIN Tail(c2s) : i + 1 \in DOMAIN c2s /\ Tail(c2s)[i] = c2s[i + 1]
  BY <1>1, TailElements
<1>3. m.req # "exit" => m.s \in Session
  BY <1>2 DEF Requests
<1>4. server.sessions \in SUBSET Session /\ server.sessions \ {m.s} \in SUBSET Session
  OBVIOUS
<1>5. CASE ServerOpen
  <2>1. m.req = "open" /\ errors' \in Nat
    BY <1>5 DEF ServerOpen, Serves
  <2>2. \/ Respond(m, "response", FALSE, server.sessions \cup {m.s})
        \/ Respond(m, "response", TRUE, server.sessions)
    BY <1>5 DEF ServerOpen
  <2>3. server.sessions \cup {m.s} \in SUBSET Session
    BY <1>3, <1>4, <2>1
  <2>4. call.op # "over" => m.s \notin server.sessions
    BY <1>1, <1>2, <1>3, <2>1 DEF Data, Messages
  <2> QED
    BY <1>1, <1>4, <2>1, <2>2, <2>3, <2>4, RespondInv
<1>6. CASE ServerProcess
  <2>1. m.req = "process" /\ errors' \in Nat
    BY <1>6 DEF ServerProcess, Serves
  <2>2. \/ Respond(m, "response", FALSE, server.sessions)
        \/ Respond(m, "response", TRUE, server.sessions \ {m.s})
    BY <1>6 DEF ServerProcess
  <2> QED
    BY <1>1, <1>4, <2>1, <2>2, RespondInv
<1>7. CASE ServerClose \/ ServerCancel
  <2>1. /\ m.req \in {"close", "cancel"} /\ errors' \in Nat
        /\ Respond(m, "response", TRUE, server.sessions \ {m.s})
    BY <1>7 DEF ServerClose, ServerCancel, Serves
  <2> QED
    BY <1>1, <1>4, <2>1, RespondInv
<1>8. CASE ServerError
  <2>1. m.req \in {"open", "process", "close"} /\ Respond(m, "error", FALSE, server.sessions)
    BY <1>8 DEF ServerError
  <2>2. errors' \in Nat
    <3>1. errors' = errors \/ (errors > 0 /\ errors' = errors - 1)
      BY <1>8 DEF ServerError
    <3>2. errors \in Nat
      OBVIOUS
    <3> HIDE DEF ProtocolInv, Types
    <3> QED
      BY <3>1, <3>2
  <2> QED
    BY <1>1, <1>4, <2>1, <2>2, RespondInv
<1>9. CASE ServerExit
  <2>1. /\ m.req = "exit" /\ c2s' = Tail(c2s) /\ server' = [up |-> FALSE, sessions |-> {}]
        /\ UNCHANGED <<sess, state, call, check, s2c, errors, losses>>
    BY <1>9 DEF ServerExit, Serves, clientVars
  <2>2. call.op = "over"
    BY <1>2, <2>1 DEF Requests
  <2>3. Types'
    BY <1>2, <2>1
  <2>4. Requests' /\ FatalLast'
    BY <1>1, <1>2, <2>1, <2>2 DEF Requests, FatalLast
  <2>5. Calls' /\ \A t \in Session : Life(t)'
    BY <2>1, <2>2 DEF Calls, Waiting, Life
  <2>6. ASSUME NEW t \in Session PROVE Sync(t)' /\ StaleSync(t)'
    <3>1. Nothing(s2c, t)' = Nothing(s2c, t) /\ One(s2c, t)' = One(s2c, t) /\ Sync(t) /\ StaleSync(t)
      BY <2>1 DEF Nothing, One, Messages
    <3> QED
      BY <2>1, <3>1 DEF Sync, StaleSync
  <2> QED
    BY <2>1, <2>2, <2>3, <2>4, <2>5, <2>6 DEF Alive
<1> QED
  BY <1>5, <1>6, <1>7, <1>8, <1>9 DEF Server

(* protocolServerError(): the server gives up.                             *)
LEMMA ServerFatalInv ==
  ASSUME ProtocolInv, ServerFatal
  PROVE  ProtocolInv'
<1> USE DEF ProtocolInv, Types
<1> DEFINE m == [NoMessage EXCEPT !.type = "error"]
<1>1. /\ server.up /\ server' = [up |-> FALSE, sessions |-> {}]
      /\ s2c' = Append(s2c, m) \/ s2c' = s2c
      /\ UNCHANGED <<sess, state, call, check, c2s, errors>>
  BY DEF ServerFatal, clientVars
<1>2. losses' \in Nat
  BY DEF ServerFatal
<1>3. m \in Message /\ m.s = Fatal
  BY DEF NoMessage, Message
<1> HIDE DEF m
<1>4. Types'
  BY <1>1, <1>2, <1>3, AppendElements
<1>5. FatalLast'
  <2>1. CASE s2c' = s2c
    BY <1>1, <2>1 DEF FatalLast
  <2>2. CASE s2c' = Append(s2c, m)
    BY <1>1, <1>3, <2>2, AppendElements DEF FatalLast
  <2> QED
    BY <1>1, <2>1, <2>2
<1>6. Requests' /\ Calls' /\ \A t \in Session : Life(t)' /\ (Alive => Known(t)')
  BY <1>1 DEF Requests, Calls, Waiting, Life, Known
<1>7. ASSUME NEW t \in Session PROVE Sync(t)' /\ StaleSync(t)'
  <2>1. Sync(t) /\ StaleSync(t) /\ t # Fatal
    BY <1>7, ProtocolAssumption
  <2>2. (Nothing(s2c, t) => Nothing(s2c, t)') /\ (One(s2c, t) => One(s2c, t)')
    <3>1. CASE s2c' = s2c
      BY <3>1 DEF Nothing, One, Messages
    <3>2. CASE s2c' = Append(s2c, m)
      BY <1>3, <2>1, <3>2, AppendMessages
    <3> QED
      BY <1>1, <3>1, <3>2
  <2> QED
    BY <1>1, <2>1, <2>2 DEF Sync, StaleSync
<1> QED
  BY <1>1, <1>4, <1>5, <1>6, <1>7 DEF Alive

(***************************************************************************)
(* The theorems                                                            *)
(***************************************************************************)
LEMMA InitInv == Init => ProtocolInv
<1> SUFFICES ASSUME Init PROVE ProtocolInv
  OBVIOUS
<1>1. NewSession \in SessionRecord /\ NoCall \in CallRecord
  BY DEF NewSession, SessionRecord, NoCall, CallRecord, NoMessage, Message
<1>2. Types
  BY <1>1, ProtocolAssumption DEF Init, Types
<1>3. DOMAIN c2s = {} /\ DOMAIN s2c = {}
  BY DEF Init
<1>4. Calls /\ Requests /\ FatalLast
  BY <1>3 DEF Init, Calls, Requests, FatalLast, Waiting, NoCall
<1>5. ASSUME NEW s \in Session
      PROVE  Life(s) /\ Known(s) /\ Sync(s) /\ StaleSync(s) /\ Data(s) /\ Ending(s)
  BY <1>3 DEF Init, NewSession, NoCall, Life, Known, Sync, StaleSync, Data, Ending, Nothing, Messages
<1> QED
  BY <1>2, <1>4, <1>5 DEF ProtocolInv

LEMMA NextInv ==
  ASSUME ProtocolInv, [Next]_vars
  PROVE  ProtocolInv'
<1>1. CASE Next
  BY <1>1, CallerInv, ResponseInv, ClientFreeInv, ServerInv, ServerFatalInv DEF Next
<1>2. CASE UNCHANGED vars
  <2> USE <1>2 DEF vars
  <2>1. (Types => Types') /\ (Calls => Calls') /\ (Alive' => Alive)
    BY DEF Types, Calls, Waiting, Alive
  <2>2. (Requests => Requests') /\ (FatalLast => FatalLast')
    BY DEF Requests, FatalLast
  <2>3. ASSUME NEW s \in Session
        PROVE  /\ (Life(s) => Life(s)') /\ (Known(s) => Known(s)')
               /\ (Sync(s) => Sync(s)') /\ (StaleSync(s) => StaleSync(s)')
               /\ (Data(s) => Data(s)') /\ (Ending(s) => Ending(s)')
    <3>1. (Life(s) => Life(s)') /\ (Known(s) => Known(s)')
      BY DEF Life, Known, Waiting
    <3>2. (Sync(s) => Sync(s)') /\ (StaleSync(s) => StaleSync(s)')
      BY SameMessages DEF Sync, StaleSync
    <3>3. (Data(s) => Data(s)') /\ (Ending(s) => Ending(s)')
      BY SameMessages DEF Data, Ending, Owned
    <3> QED
      BY <3>1, <3>2, <3>3
  <2> QED
    BY <2>1, <2>2, <2>3 DEF ProtocolInv
<1> QED
  BY <1>1, <1>2

LEMMA ProtocolInvImplies ==
  ASSUME ProtocolInv
  PROVE  ProtocolTypeOK /\ InSync /\ ServerSessionIsOpen
<1> USE DEF ProtocolInv
<1>1. ProtocolTypeOK
  BY TypesOK
<1>2. check # "twice" /\ (check = "unknown" => \E s \in Session : sess[s].stale)
  BY DEF Calls
<1>3. ASSUME NEW s \in Session, ~sess[s].stale PROVE OneOutstanding(s)
  <2>1. Sync(s) /\ Life(s)
    OBVIOUS
  <2> QED
    BY <1>3, <2>1 DEF OneOutstanding, Sync, Life, Nothing, One
<1>4. ServerSessionIsOpen
  <2>1. SUFFICES ASSUME call.op # "over", NEW s \in server.sessions
                 PROVE  Owned(s) \/ Cancelled(s)
    BY DEF ServerSessionIsOpen, Owned
  <2>2. server.up /\ s \in Session
    BY <2>1 DEF Calls, Types
  <2> QED
    BY <2>1, <2>2 DEF Data
<1> QED
  BY <1>1, <1>2, <1>3, <1>4 DEF InSync

(* ProtocolInv, and with it ProtocolTypeOK, holds in every reachable state *)
(* of protocolClientResponseInternal(), its callers and the server.        *)
THEOREM ProtocolInvariant == Spec => [](ProtocolInv /\ ProtocolTypeOK)
<1>1. Init => ProtocolInv
  BY InitInv
<1>2. ProtocolInv /\ [Next]_vars => ProtocolInv'
  BY NextInv
<1>3. ProtocolInv => ProtocolTypeOK
  BY ProtocolInvImplies
<1> QED
  BY <1>1, <1>2, <1>3, PTL DEF Spec

(* InSync: protocolClientResponseInternal() and protocolServerProcess()    *)
(* agree on what is outstanding for every session that was not cancelled   *)
(* with a stored response, so that a session reads the answer to its last  *)
(* request; a CHECK of the client fails only because of such a session.    *)
(* For any number of sessions, requests, failing handlers and losses of    *)
(* the connection.                                                         *)
THEOREM ProtocolInSync == Spec => []InSync
<1>1. ProtocolInv => InSync
  BY ProtocolInvImplies
<1> QED
  BY <1>1, ProtocolInvariant, PTL

(* ServerSessionIsOpen: protocolServerProcess() keeps the data of a        *)
(* session only while the client has it open and uses it, or its cancel is *)
(* on the way, or protocolClientSessionFreeResource() threw before it sent *)
(* one, however ends of files, errors, closes and cancels cross.           *)
THEOREM ProtocolServerSession == Spec => []ServerSessionIsOpen
<1>1. ProtocolInv => ServerSessionIsOpen
  BY ProtocolInvImplies
<1> QED
  BY <1>1, ProtocolInvariant, PTL
=============================================================================
