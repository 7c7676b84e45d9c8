------------------------------ MODULE Protocol ------------------------------
(***************************************************************************)
(* One protocol connection: the client with its sessions                   *)
(* (protocol/client.c) and the server that answers it (protocol/server.c). *)
(* Requests and responses travel in order, but a session that waits for    *)
(* its response may find that of another session first; it stores it with  *)
(* that session and reads on.                                              *)
(*                                                                         *)
(* What must not go wrong: a session gets the answer to what it asked, and *)
(* both ends agree on what is still to come.                               *)
(***************************************************************************)
EXTENDS Naturals, Sequences

CONSTANTS
  Session,     \* session ids the client ever gives out
  Async,       \* sessions created with .async
  Opens,       \* sessions that are opened: the server keeps data for them
  Fatal,       \* session id 0, in the error of a server that gives up
  MaxRequest,  \* bound: requests of one session before it is closed
  MaxError,    \* bound: requests that fail on the server
  MaxLoss      \* bound: fatal errors of the server, lost connections

ASSUME ProtocolAssumption ==
  /\ Async \subseteq Session /\ Opens \subseteq Session
  /\ Fatal \notin Session
  /\ MaxRequest \in Nat /\ MaxError \in Nat /\ MaxLoss \in Nat

VARIABLES
  sess,    \* client sessions
  state,   \* client state: idle, or left in a request or response that failed
  call,    \* the client call that waits for a response
  c2s,     \* requests on their way
  s2c,     \* responses on their way
  server,  \* is it running, and the sessions it has data for
  check,   \* which CHECK of the client failed
  errors,  \* failing requests still to come
  losses   \* fatal errors still to come

clientVars == <<sess, state, call, check>>
vars == <<sess, state, call, c2s, s2c, server, check, errors, losses>>

NoCall == [op |-> "none", s |-> Fatal]
NoMessage == [s |-> Fatal, req |-> "none", type |-> "response", close |-> FALSE]

(* life: "none" before it is created, then "live", then "gone". stale: it  *)
(* was cancelled with a stored response, which is taken for the answer to  *)
(* the cancel (history).                                                   *)
NewSession == [life |-> "none", listed |-> FALSE, open |-> FALSE, stale |-> FALSE,
               queued |-> FALSE, stored |-> FALSE, msg |-> NoMessage, sent |-> 0]

Init ==
  /\ sess = [s \in Session |-> NewSession]
  /\ state = "idle" /\ call = NoCall
  /\ c2s = <<>> /\ s2c = <<>>
  /\ server = [up |-> TRUE, sessions |-> {}]
  /\ check = "none"
  /\ errors = MaxError /\ losses = MaxLoss

-----------------------------------------------------------------------------
(* Requests of the client: protocolClientRequestInternal()                 *)

Ready(s) == call.op = "none" /\ sess[s].life = "live" /\ state = "idle"

Request(s, req) == [s |-> s, req |-> req, need |-> sess[s].open]

(* The request is sent and rec is the session with it; a server that is    *)
(* gone may be noticed, which leaves the client in the request state.      *)
Send(s, req, op, rec) ==
  \/ /\ c2s' = Append(c2s, Request(s, req))
     /\ sess' = [sess EXCEPT ![s] = [rec EXCEPT !.queued = TRUE]]
     /\ call' = IF op = "none" THEN NoCall ELSE [op |-> op, s |-> s]
     /\ UNCHANGED state
  \/ /\ ~server.up
     /\ state' = "request"
     /\ call' = NoCall
     /\ sess' = [sess EXCEPT ![s].life = IF op = "cancel" THEN "gone" ELSE @]
     /\ UNCHANGED c2s

(* protocolClientSessionNew(); async sessions are tracked from the start.  *)
SessionNew(s) ==
  /\ call.op = "none" /\ sess[s].life = "none"
  /\ sess' = [sess EXCEPT ![s].life = "live", ![s].listed = s \in Async]
  /\ UNCHANGED <<state, call, c2s, s2c, server, check, errors, losses>>

(* protocolClientSessionOpen(): open is set before the response is read.   *)
SessionOpen(s) ==
  /\ Ready(s) /\ s \in Opens /\ sess[s].sent = 0
  /\ Send(s, "open", "open",
          [sess[s] EXCEPT !.open = TRUE, !.listed = TRUE, !.sent = 1])
  /\ UNCHANGED <<s2c, server, check, errors, losses>>

(* protocolClientRequest() has a session of its own for its one request.   *)
CanRequest(s) ==
  /\ Ready(s) /\ ~sess[s].queued
  /\ sess[s].sent <= IF s \in Opens \cup Async THEN MaxRequest ELSE 0
  /\ s \in Opens => sess[s].open

(* protocolClientSessionRequest(), protocolClientRequest() and             *)
(* protocolClientNoOp() wait for the response...                           *)
SessionRequest(s) ==
  /\ CanRequest(s) /\ s \notin Async
  /\ Send(s, "process", "request", [sess[s] EXCEPT !.sent = @ + 1])
  /\ UNCHANGED <<s2c, server, check, errors, losses>>

(* ...protocolClientSessionRequestAsync() does not.                        *)
SessionRequestAsync(s) ==
  /\ CanRequest(s) /\ s \in Async
  /\ Send(s, "process", "none", [sess[s] EXCEPT !.sent = @ + 1])
  /\ UNCHANGED <<s2c, server, check, errors, losses>>

(* protocolClientSessionResponse().                                        *)
SessionResponse(s) ==
  /\ Ready(s) /\ s \in Async /\ sess[s].queued
  /\ call' = [op |-> "response", s |-> s]
  /\ UNCHANGED <<sess, state, c2s, s2c, server, check, errors, losses>>

(* protocolClientSessionClose(), after the last response.                  *)
SessionClose(s) ==
  /\ Ready(s) /\ sess[s].open /\ ~sess[s].queued
  /\ Send(s, "close", "close", sess[s])
  /\ UNCHANGED <<s2c, server, check, errors, losses>>

-----------------------------------------------------------------------------
(* protocolClientSessionFreeResource(): by cancel, or when memory is freed *)

(* Mutant: the response that is still to come is not read.                 *)
SessionFreeNoDrain(s) ==
  /\ call.op = "none" /\ sess[s].life = "live"
  /\ IF sess[s].open
     THEN state = "idle" /\ Send(s, "cancel", "cancel", sess[s])
     ELSE /\ sess' = [sess EXCEPT ![s].life = "gone", ![s].listed = FALSE]
          /\ UNCHANGED <<state, call, c2s>>
  /\ UNCHANGED <<s2c, server, check, errors, losses>>

(* A queued response is read first, a stored one freed (but not unset: the *)
(* cancel will take it for its answer); an open session is cancelled; the  *)
(* session leaves the list. When the connection failed before, this throws *)
(* and the memory is freed anyway, with the session still in the list.     *)
SessionFree(s) ==
  LET drain == sess[s].queued /\ ~sess[s].stored IN
  /\ call.op = "none" /\ sess[s].life = "live"
  /\ \/ /\ sess[s].listed /\ (drain \/ sess[s].open) /\ state # "idle"
        /\ sess' = [sess EXCEPT ![s].life = "gone"]
        /\ UNCHANGED <<state, call, c2s>>
     \/ /\ sess[s].listed /\ drain /\ state = "idle"
        /\ call' = [op |-> "drain", s |-> s]
        /\ UNCHANGED <<sess, state, c2s>>
     \/ /\ sess[s].listed /\ ~drain /\ sess[s].open /\ state = "idle"
        /\ Send(s, "cancel", "cancel", [sess[s] EXCEPT !.stale = sess[s].stored])
     \/ /\ ~(sess[s].listed /\ (drain \/ sess[s].open))
        /\ sess' = [sess EXCEPT ![s].life = "gone", ![s].listed = FALSE]
        /\ UNCHANGED <<state, call, c2s>>
  /\ UNCHANGED <<s2c, server, check, errors, losses>>

(* The cancel that follows a response read by SessionFree.                 *)
SessionFreeCancel ==
  /\ call.op = "drained"
  /\ Send(call.s, "cancel", "cancel", sess[call.s])
  /\ UNCHANGED <<s2c, server, check, errors, losses>>

-----------------------------------------------------------------------------
(* Responses: protocolClientResponseInternal()                             *)

Waiting == call.op \notin {"none", "drained", "over"}

(* The call gets message m: errors are thrown, also out of a free; a close *)
(* and a cancel end with the session leaving the list.                     *)
Found(m) ==
  LET s == call.s
      open == sess[s].open /\ ~m.close
      thrown == m.type = "error"
      freed == \/ call.op \in {"close", "cancel"} /\ ~thrown
               \/ call.op = "drain" /\ ~thrown /\ ~open
      gone == freed \/ (call.op \in {"drain", "cancel"} /\ thrown) IN
  /\ sess' = [sess EXCEPT ![s].queued = FALSE, ![s].stored = FALSE, ![s].open = open,
                          ![s].msg = NoMessage,
                          ![s].listed = @ /\ ~freed,
                          ![s].life = IF gone THEN "gone" ELSE @]
  /\ call' = IF call.op = "drain" /\ ~gone THEN [op |-> "drained", s |-> s] ELSE NoCall

(* The response was stored by another session.                             *)
ResponseStored ==
  /\ Waiting /\ sess[call.s].stored
  /\ Found(sess[call.s].msg)
  /\ UNCHANGED <<state, c2s, s2c, server, check, errors, losses>>

(* The response for this session, or a fatal error, is next.               *)
ResponseOwn ==
  /\ Waiting /\ ~sess[call.s].stored /\ s2c # <<>>
  /\ Head(s2c).s \in {Fatal, call.s}
  /\ Found(Head(s2c))
  /\ s2c' = Tail(s2c)
  /\ UNCHANGED <<state, c2s, server, check, errors, losses>>

(* Mutant: a response for another session is thrown away.                  *)
ResponseOtherDropped ==
  /\ Waiting /\ ~sess[call.s].stored /\ s2c # <<>>
  /\ Head(s2c).s \notin {Fatal, call.s}
  /\ s2c' = Tail(s2c)
  /\ UNCHANGED <<sess, state, call, c2s, server, check, errors, losses>>

(* It is for another session: store it there. A session that is not in the *)
(* list, or has a response already, is a ProtocolError that leaves the     *)
(* client in the response state.                                           *)
ResponseOther ==
  /\ Waiting /\ ~sess[call.s].stored /\ s2c # <<>>
  /\ Head(s2c).s \notin {Fatal, call.s}
  /\ s2c' = Tail(s2c)
  /\ LET m == Head(s2c)
         failed == IF ~sess[m.s].listed THEN "unknown"
                   ELSE IF sess[m.s].stored THEN "twice" ELSE "none" IN
       IF failed = "none"
       THEN /\ sess' = [sess EXCEPT ![m.s].stored = TRUE, ![m.s].msg = m]
            /\ UNCHANGED <<state, call, check>>
       ELSE /\ check' = failed /\ state' = "response" /\ call' = NoCall
            /\ sess' = [sess EXCEPT ![call.s].life =
                          IF call.op \in {"drain", "cancel"} THEN "gone" ELSE @]
  /\ UNCHANGED <<c2s, server, errors, losses>>

(* Nothing more will come: the read throws.                                *)
ResponseEof ==
  /\ Waiting /\ ~sess[call.s].stored /\ s2c = <<>> /\ ~server.up
  /\ state' = "response" /\ call' = NoCall
  /\ sess' = [sess EXCEPT ![call.s].life =
                IF call.op \in {"drain", "cancel"} THEN "gone" ELSE @]
  /\ UNCHANGED <<c2s, s2c, server, check, errors, losses>>

(* protocolClientFreeResource(): sessions are not cancelled, an exit is    *)
(* sent whatever the state and nobody waits for an answer.                 *)
ClientFree ==
  /\ call.op = "none"
  /\ c2s' = Append(c2s, [s |-> Fatal, req |-> "exit", need |-> FALSE])
  /\ sess' = [s \in Session |-> [sess[s] EXCEPT !.life = "gone", !.listed = FALSE]]
  /\ state' = "idle" /\ call' = [op |-> "over", s |-> Fatal]
  /\ UNCHANGED <<s2c, server, check, errors, losses>>

-----------------------------------------------------------------------------
(* protocolServerProcess()                                                 *)

Respond(m, type, close, sessions) ==
  /\ s2c' = Append(s2c, [s |-> m.s, req |-> m.req, type |-> type, close |-> close])
  /\ server' = [server EXCEPT !.sessions = sessions]
  /\ c2s' = Tail(c2s)
  /\ UNCHANGED <<clientVars, losses>>

Serves(req) == server.up /\ c2s # <<>> /\ Head(c2s).req = req

(* Open: the handler may have nothing to keep (a file that is missing).    *)
ServerOpen ==
  LET m == Head(c2s) IN
  /\ Serves("open")
  /\ \/ Respond(m, "response", FALSE, server.sessions \cup {m.s})
     \/ Respond(m, "response", TRUE, server.sessions)
  /\ UNCHANGED errors

(* Mutant: the session is not freed when the handler ends it.              *)
ServerProcessKeeps ==
  LET m == Head(c2s) IN
  /\ Serves("process") /\ (m.need => m.s \in server.sessions)
  /\ \/ Respond(m, "response", FALSE, server.sessions)
     \/ m.need /\ Respond(m, "response", TRUE, server.sessions)
  /\ UNCHANGED errors

(* Process: a session handler may end the session with its response (the   *)
(* end of a file).                                                         *)
ServerProcess ==
  LET m == Head(c2s) IN
  /\ Serves("process") /\ (m.need => m.s \in server.sessions)
  /\ \/ Respond(m, "response", FALSE, server.sessions)
     \/ m.need /\ Respond(m, "response", TRUE, server.sessions \ {m.s})
  /\ UNCHANGED errors

ServerClose ==
  LET m == Head(c2s) IN
  /\ Serves("close") /\ m.s \in server.sessions
  /\ Respond(m, "response", TRUE, server.sessions \ {m.s})
  /\ UNCHANGED errors

(* A cancel is answered whether there is such a session or not.            *)
ServerCancel ==
  LET m == Head(c2s) IN
  /\ Serves("cancel")
  /\ Respond(m, "response", TRUE, server.sessions \ {m.s})
  /\ UNCHANGED errors

(* A handler throws, retries included, or the session is not known.        *)
ServerError ==
  LET m == Head(c2s) IN
  /\ server.up /\ c2s # <<>>
  /\ \/ m.req \in {"open", "process", "close"} /\ errors > 0 /\ errors' = errors - 1
     \/ /\ m.req \in {"process", "close"} /\ m.need /\ m.s \notin server.sessions
        /\ UNCHANGED errors
  /\ Respond(m, "error", FALSE, server.sessions)

ServerExit ==
  /\ Serves("exit")
  /\ c2s' = Tail(c2s)
  /\ server' = [up |-> FALSE, sessions |-> {}]
  /\ UNCHANGED <<clientVars, s2c, errors, losses>>

(* A fatal error is reported with session id 0 if the connection allows,   *)
(* and the server ends.                                                    *)
ServerFatal ==
  /\ server.up /\ losses > 0 /\ losses' = losses - 1
  /\ server' = [up |-> FALSE, sessions |-> {}]
  /\ \/ s2c' = Append(s2c, [NoMessage EXCEPT !.type = "error"])
     \/ UNCHANGED s2c
  /\ UNCHANGED <<clientVars, c2s, errors>>

-----------------------------------------------------------------------------
Response ==
  ResponseStored \/ ResponseOwn \/ ResponseOther \/ ResponseEof \/ SessionFreeCancel

Caller(s) ==
  \/ SessionNew(s) \/ SessionOpen(s) \/ SessionRequest(s) \/ SessionRequestAsync(s)
  \/ SessionResponse(s) \/ SessionClose(s) \/ SessionFree(s)

Server ==
  ServerOpen \/ ServerProcess \/ ServerClose \/ ServerCancel \/ ServerError \/ ServerExit

Next ==
  \/ \E s \in Session : Caller(s)
  \/ Response \/ ClientFree \/ Server \/ ServerFatal

Spec == Init /\ [][Next]_vars

(* Both processes run; when and whether callers call is not assumed.       *)
FairSpec == Spec /\ WF_vars(Response) /\ WF_vars(Server)

-----------------------------------------------------------------------------
(* Type invariant *)

Message == [s : Session \cup {Fatal},
            req : {"none", "open", "process", "close", "cancel"},
            type : {"response", "error"}, close : BOOLEAN]

ProtocolTypeOK ==
  /\ sess \in [Session -> [life : {"none", "live", "gone"}, listed : BOOLEAN,
                           open : BOOLEAN, stale : BOOLEAN, queued : BOOLEAN,
                           stored : BOOLEAN, msg : Message, sent : Nat]]
  /\ state \in {"idle", "request", "response"}
  /\ call \in [op : {"none", "open", "request", "response", "close", "drain",
                     "drained", "cancel", "over"},
               s : Session \cup {Fatal}]
  /\ c2s \in Seq([s : Session \cup {Fatal}, need : BOOLEAN,
                  req : {"open", "process", "close", "cancel", "exit"}])
  /\ s2c \in Seq(Message)
  /\ server \in [up : BOOLEAN, sessions : SUBSET Session]
  /\ check \in {"none", "unknown", "twice"}
  /\ errors \in Nat /\ losses \in Nat

-----------------------------------------------------------------------------
(* Safety and liveness *)

Messages(seq, s) == {i \in DOMAIN seq : seq[i].s = s}

(* "Async permits at most one outstanding request per session": while the  *)
(* server runs, a session with a queued response has exactly one message   *)
(* on the way to the server, on the way back or stored, and a session      *)
(* without has none; so the response it reads answers its last request.    *)
OneOutstanding(s) ==
  LET requests == Messages(c2s, s)
      responses == Messages(s2c, s) IN
  server.up /\ call.op # "over" =>
    /\ ~sess[s].queued => requests = {} /\ responses = {} /\ ~sess[s].stored
    /\ sess[s].queued =>
         \/ /\ \E i \in requests : requests = {i}
            /\ responses = {} /\ ~sess[s].stored
         \/ /\ \E i \in responses : responses = {i}
            /\ requests = {} /\ ~sess[s].stored
         \/ requests = {} /\ responses = {} /\ sess[s].stored

(* Client and server agree on what is outstanding, for every session but   *)
(* the ones that were cancelled with a stored response. Those harm no      *)
(* other session's order of responses; what they may do is end the         *)
(* connection: the client meets a response for a session it does not know  *)
(* only when there is such a session, and never one for a session that has *)
(* a stored response.                                                      *)
InSync ==
  /\ \A s \in Session : ~sess[s].stale => OneOutstanding(s)
  /\ check # "twice"
  /\ check = "unknown" => \E s \in Session : sess[s].stale

Cancelled(s) == \E i \in DOMAIN c2s : c2s[i].s = s /\ c2s[i].req = "cancel"

(* The server keeps data only for sessions that are open and still used,   *)
(* or are being cancelled, however ends of files, errors, closes and       *)
(* cancels cross each other: but for a session whose free threw (it is     *)
(* gone and still in the list), because the connection failed or the       *)
(* response it read first was an error: no cancel follows.                 *)
ServerSessionIsOpen ==
  call.op # "over" =>
    \A s \in server.sessions :
      \/ sess[s].open /\ sess[s].life = "live"
      \/ Cancelled(s)
      \/ sess[s].life = "gone" /\ sess[s].listed

(* Every call returns, with a response or with an error.                   *)
CallEnds == call.op # "none" ~> call.op \in {"none", "over"}
=============================================================================
