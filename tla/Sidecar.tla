------------------------------- MODULE Sidecar -------------------------------
(***************************************************************************)
(* The sidecar (src/sidecar): HTTP clients post runs in conversations and  *)
(* follow a run as a stream of server-sent events; the sidecar talks to    *)
(* the gateway over one WebSocket that may close at any time.  The gateway *)
(* sends events by session, and the tracker gives an event to the run it   *)
(* has as the session's active one.                                        *)
(*                                                                         *)
(* Code between two awaits is one step; a response settles its promise in  *)
(* one step and the code that awaits it goes on in another, as frames that *)
(* came together are handled before it.  Of the gateway the module has     *)
(* what it tells the sidecar: it accepts a run before its events, lets one *)
(* run of a session begin at a time, and responds to an agent request a    *)
(* second time when its command is over, which may have thrown before the  *)
(* first event.  What it sends of a run after the first terminal event has *)
(* no session key, and is left out, as are events that mean nothing to the *)
(* product.  An aborted run ends as a completed one does.  Left out are    *)
(* the requests that leave no trace in the sidecar: those refused at once, *)
(* and abort and result, which it passes on.                               *)
(***************************************************************************)
EXTENDS Naturals, Sequences, FiniteSets, SequencesExt

CONSTANTS
  Runs,        \* POST .../runs requests; the id of a run is that of its request
  Sessions,    \* session keys, one per conversation
  SessionOf,   \* [Runs -> Sessions]
  Clients,     \* GET .../events requests
  None,
  Again,       \* bound: runs whose second response the gateway sends
  MaxDeltas,   \* [Runs -> Nat], bound: events of a run after its first and before the last
  MaxCloses    \* bound: times the connection is lost

ASSUME SidecarAssumption ==
  /\ SessionOf \in [Runs -> Sessions]
  /\ None \notin Runs \cup Sessions
  /\ MaxDeltas \in [Runs -> Nat] /\ MaxCloses \in Nat

VARIABLES
  conn,        \* the WebSocket: closed, open, up once connect was sent
  closes,      \* how often it was lost
  out,         \* frames on their way to the gateway
  wire,        \* frames on their way from the gateway
  post,        \* [run -> where the handler of its POST is]
  configured,  \* sessions whose verbose level was set
  runs,        \* [run -> RunState of the tracker]
  active,      \* activeBySession
  client,      \* [client -> the response it reads: pc, run, got]
  greeted,     \* the gateway has seen the connect of this connection
  taken,       \* runs the gateway accepted
  owed,        \* of them, those it still has to respond to again on this connection
  failed,      \* of them, those whose command threw before its first event
  said,        \* [run -> phases of the events the gateway emitted of it]
  disturbed    \* history: runs that overlapped another run of their session,
               \* or a loss of the connection

vars == <<conn, closes, out, wire, post, configured, runs, active, client,
          greeted, taken, owed, failed, said, disturbed>>
http == <<configured, client>>
gateway == <<greeted, taken, owed, failed, said>>

-----------------------------------------------------------------------------
Ending == {"end", "error"}
Phases == {"start", "delta"} \cup Ending

(* A mutant: a failure of the agent is taken for a part of its answer.     *)
ProductTypeFaulty(phase) ==
  CASE phase = "start" -> "run.started"
    [] phase = "end" -> "run.completed"
    [] OTHER -> "assistant.delta"

(* mapGatewayEvent.                                                        *)
ProductType(phase) ==
  CASE phase = "start" -> "run.started"
    [] phase = "delta" -> "assistant.delta"
    [] phase = "end" -> "run.completed"
    [] phase = "error" -> "run.failed"

StreamEnd == [run |-> None, type |-> "stream.end"]

Statuses == {"accepted", "running", "completed", "failed"}
Terminal == {"completed", "failed"}

Absent == [present |-> FALSE, status |-> "accepted", events |-> <<>>, sse |-> {}]
NewRun == [Absent EXCEPT !.present = TRUE]
NoStream == [pc |-> "none", run |-> None, got |-> <<>>]

PostPc ==
  {"new", "patch", "patched", "unpatched", "agent", "agreed", "denied", "accepted", "refused"}

(* Nothing more is emitted of run r.                                       *)
Over(r) == r \in failed \/ (said[r] # <<>> /\ Last(said[r]) \in Ending)
IsOf(frame, r) == frame.type = "event" /\ frame.id = r

(* Something may still come, or come back, of run r.                       *)
Unfinished(r) ==
  \/ post[r] \in {"agent", "denied"}
  \/ r \in taken /\ ~ Over(r)
  \/ \E i \in DOMAIN wire : IsOf(wire[i], r)

Init ==
  /\ conn = "closed" /\ closes = 0
  /\ out = <<>> /\ wire = <<>>
  /\ post = [r \in Runs |-> "new"]
  /\ configured = {}
  /\ runs = [r \in Runs |-> Absent]
  /\ active = [s \in Sessions |-> None]
  /\ client = [c \in Clients |-> NoStream]
  /\ greeted = FALSE /\ taken = {} /\ owed = {} /\ failed = {}
  /\ said = [r \in Runs |-> <<>>]
  /\ disturbed = {}

-----------------------------------------------------------------------------
(* The gateway client.                                                     *)

Connected == conn # "closed"
Frame(type, id) == [type |-> type, id |-> id]
Response(type, id, ok) == [type |-> type, id |-> id, ok |-> ok]

(* start, after a backoff; the connection opens.                           *)
Reconnect ==
  /\ conn = "closed"
  /\ conn' = "open"
  /\ UNCHANGED <<closes, out, wire, post, runs, active, disturbed, http, gateway>>

(* sendConnect, on a challenge or 750 ms after the connection opened.      *)
SendConnect ==
  /\ conn = "open"
  /\ conn' = "up"
  /\ out' = Append(out, Frame("connect", None))
  /\ UNCHANGED <<closes, wire, post, runs, active, disturbed, http, gateway>>

(* flushPendingErrors.                                                     *)
FlushedPost ==
  [r \in Runs |-> CASE post[r] = "patch" -> "unpatched"
                    [] post[r] = "agent" -> "denied"
                    [] OTHER -> post[r]]

(* A mutant: requests in flight are forgotten with the connection.         *)
LoseFaulty ==
  /\ conn' = "closed"
  /\ out' = <<>> /\ wire' = <<>>
  /\ greeted' = FALSE /\ owed' = {}
  /\ disturbed' = disturbed \cup { r \in Runs : Unfinished(r) }
  /\ UNCHANGED <<post, configured, runs, active, client, taken, failed, said>>

(* The close handler: what was on its way is lost, and what awaits an      *)
(* answer is rejected.                                                     *)
Lose ==
  /\ conn' = "closed"
  /\ out' = <<>> /\ wire' = <<>>
  /\ post' = FlushedPost
  /\ greeted' = FALSE /\ owed' = {}
  /\ disturbed' = disturbed \cup { r \in Runs : Unfinished(r) }
  /\ UNCHANGED <<configured, runs, active, client, taken, failed, said>>

(* The network, the gateway or the tick watch closes the connection.       *)
Close ==
  /\ Connected /\ closes < MaxCloses
  /\ closes' = closes + 1
  /\ Lose

-----------------------------------------------------------------------------
(* POST /v1/conversations/:id/runs.                                        *)

Post(r) ==
  /\ post[r] = "new"
  /\ \/ /\ SessionOf[r] \notin configured /\ Connected
        /\ post' = [post EXCEPT ![r] = "patch"]
        /\ out' = Append(out, Frame("patch", r))
     \/ /\ SessionOf[r] \in configured \/ ~ Connected
        /\ post' = [post EXCEPT ![r] = "unpatched"]
        /\ UNCHANGED out
  /\ UNCHANGED <<conn, closes, wire, runs, active, disturbed, http, gateway>>

Rivals(r) == { x \in Runs \ {r} : SessionOf[x] = SessionOf[r] /\ Unfinished(x) }

(* A mutant: a run the session still has as active is left there.          *)
CreateFaulty(r) ==
  /\ post[r] \in {"patched", "unpatched"} /\ Connected
  /\ post' = [post EXCEPT ![r] = "agent"]
  /\ out' = Append(out, Frame("agent", r))
  /\ runs' = [runs EXCEPT ![r] = NewRun]
  /\ active' = [active EXCEPT ![SessionOf[r]] = IF @ = None THEN r ELSE @]
  /\ disturbed' = disturbed \cup Rivals(r) \cup (IF Rivals(r) = {} THEN {} ELSE {r})
  /\ configured' = IF post[r] = "patched" THEN configured \cup {SessionOf[r]} ELSE configured
  /\ UNCHANGED <<conn, closes, wire, client, gateway>>

(* createRun and the agent request.  Without a connection the request      *)
(* throws, and deleteRun removes the run and what activeBySession has.     *)
Create(r) ==
  /\ post[r] \in {"patched", "unpatched"}
  /\ configured' = IF post[r] = "patched" THEN configured \cup {SessionOf[r]} ELSE configured
  /\ \/ /\ Connected
        /\ post' = [post EXCEPT ![r] = "agent"]
        /\ out' = Append(out, Frame("agent", r))
        /\ runs' = [runs EXCEPT ![r] = NewRun]
        /\ active' = [active EXCEPT ![SessionOf[r]] = r]
        /\ disturbed' = disturbed \cup Rivals(r) \cup (IF Rivals(r) = {} THEN {} ELSE {r})
     \/ /\ ~ Connected
        /\ post' = [post EXCEPT ![r] = "refused"]
        /\ active' = [active EXCEPT ![SessionOf[r]] = None]
        /\ disturbed' = disturbed \cup Rivals(r)
        /\ UNCHANGED <<out, runs>>
  /\ UNCHANGED <<conn, closes, wire, client, gateway>>

(* 202.                                                                    *)
Accepted(r) ==
  /\ post[r] = "agreed"
  /\ post' = [post EXCEPT ![r] = "accepted"]
  /\ UNCHANGED <<conn, closes, out, wire, runs, active, disturbed, http, gateway>>

(* 502: deleteRun.                                                         *)
Refused(r) ==
  /\ post[r] = "denied"
  /\ post' = [post EXCEPT ![r] = "refused"]
  /\ runs' = [runs EXCEPT ![r] = Absent]
  /\ active' = [active EXCEPT ![SessionOf[r]] = None]
  /\ disturbed' = disturbed \cup Rivals(r)
  /\ UNCHANGED <<conn, closes, out, wire, http, gateway>>

-----------------------------------------------------------------------------
(* Frames from the gateway.                                                *)

StatusOf(type, old) ==
  CASE type = "run.started" -> "running"
    [] type = "run.completed" -> "completed"
    [] type = "run.failed" -> "failed"
    [] OTHER -> old

(* A mutant: the session keeps its run when the run has failed.            *)
PushEventFaulty(r, event) ==
  LET state == runs[r]
      status == StatusOf(event.type, state.status)
      done == status \in Terminal
      sent == IF done THEN <<event, StreamEnd>> ELSE <<event>>
  IN /\ runs' = [runs EXCEPT ![r].events = Append(@, event), ![r].status = status,
                             ![r].sse = IF done THEN {} ELSE @]
     /\ active' = [active EXCEPT ![SessionOf[r]] =
                     IF status = "completed" THEN None ELSE @]
     /\ client' = [c \in Clients |->
                     IF c \notin state.sse THEN client[c]
                     ELSE [client[c] EXCEPT !.got = @ \o sent,
                                            !.pc = IF done THEN "ended" ELSE @]]

(* pushEvent: history, status, the stream of every client; a terminal      *)
(* event ends the streams and takes the session's run away.                *)
PushEvent(r, event) ==
  LET state == runs[r]
      status == StatusOf(event.type, state.status)
      done == status \in Terminal
      sent == IF done THEN <<event, StreamEnd>> ELSE <<event>>
  IN /\ runs' = [runs EXCEPT ![r].events = Append(@, event), ![r].status = status,
                             ![r].sse = IF done THEN {} ELSE @]
     /\ active' = IF event.type \in {"run.completed", "run.failed"}
                  THEN [active EXCEPT ![SessionOf[r]] = None] ELSE active
     /\ client' = [c \in Clients |->
                     IF c \notin state.sse THEN client[c]
                     ELSE [client[c] EXCEPT !.got = @ \o sent,
                                            !.pc = IF done THEN "ended" ELSE @]]

(* onEvent: the event goes to the run the session has as active.  What     *)
(* that run is sent is recorded with the run it comes from.                *)
HandleEvent(frame) ==
  LET r == active[SessionOf[frame.id]]
  IN /\ IF r # None /\ runs[r].present
        THEN PushEvent(r, [run |-> frame.id, type |-> ProductType(frame.phase)])
        ELSE UNCHANGED <<runs, active, client>>
     /\ UNCHANGED post

(* handleMessage: a response settles the request that is pending, if it is *)
(* pending: the second response to an agent request finds none.            *)
HandleResponse(frame) ==
  LET request == IF frame.type = "patch" THEN "patch" ELSE "agent"
  IN /\ post' = [post EXCEPT ![frame.id] =
                    IF @ # request THEN @
                    ELSE CASE request = "patch" -> IF frame.ok THEN "patched" ELSE "unpatched"
                           [] request = "agent" -> IF frame.ok THEN "agreed" ELSE "denied"]
     /\ UNCHANGED <<runs, active, client>>

HandleMessage ==
  /\ wire # <<>>
  /\ wire' = Tail(wire)
  /\ IF Head(wire).type = "event" THEN HandleEvent(Head(wire)) ELSE HandleResponse(Head(wire))
  /\ UNCHANGED <<conn, closes, out, configured, disturbed, gateway>>

-----------------------------------------------------------------------------
(* GET /v1/runs/:runId/events.                                             *)

(* A client that follows a run it was told of.                             *)
Watch(c, r) ==
  /\ client[c].pc = "none" /\ post[r] = "accepted" /\ runs[r].present
  /\ \/ /\ runs[r].status \in Terminal
        /\ client' = [client EXCEPT ![c] = [pc |-> "ended", run |-> r,
                                            got |-> Append(runs[r].events, StreamEnd)]]
        /\ UNCHANGED runs
     \/ /\ runs[r].status \notin Terminal
        /\ client' = [client EXCEPT ![c] = [pc |-> "live", run |-> r, got |-> runs[r].events]]
        /\ runs' = [runs EXCEPT ![r].sse = @ \cup {c}]
  /\ UNCHANGED <<conn, closes, out, wire, post, configured, active, disturbed, gateway>>

(* The client goes away, and may come back.                                *)
Leave(c) ==
  /\ client[c].pc = "live"
  /\ client' = [client EXCEPT ![c] = NoStream]
  /\ runs' = [runs EXCEPT ![client[c].run].sse = @ \ {c}]
  /\ UNCHANGED <<conn, closes, out, wire, post, configured, active, disturbed, gateway>>

-----------------------------------------------------------------------------
(* The gateway.                                                            *)

Send(frame) == wire' = Append(wire, frame)

(* A request before the connect makes the gateway close the connection.    *)
GatewayRejects ==
  /\ out # <<>> /\ ~ greeted /\ Head(out).type # "connect"
  /\ Lose
  /\ UNCHANGED closes

(* An agent request is refused, or accepted and its command called.        *)
GatewayReceives ==
  /\ out # <<>>
  /\ LET frame == Head(out)
     IN \/ /\ frame.type = "connect"
           /\ greeted' = TRUE
           /\ UNCHANGED <<wire, taken, owed>>
        \/ /\ greeted /\ frame.type = "patch"
           /\ \E ok \in BOOLEAN : Send(Response("patch", frame.id, ok))
           /\ UNCHANGED <<greeted, taken, owed>>
        \/ /\ greeted /\ frame.type = "agent"
           /\ \E ok \in BOOLEAN :
                /\ Send(Response("agent", frame.id, ok))
                /\ taken' = IF ok THEN taken \cup {frame.id} ELSE taken
                /\ owed' = IF ok THEN owed \cup {frame.id} ELSE owed
           /\ UNCHANGED greeted
  /\ out' = Tail(out)
  /\ UNCHANGED <<conn, closes, post, configured, runs, active, client, failed, said, disturbed>>

(* The lane of a session lets one of its runs begin at a time.             *)
Turn(r) ==
  \A x \in Runs \ {r} : SessionOf[x] = SessionOf[r] /\ said[x] # <<>> => Over(x)

(* An event of run r, to whoever is connected.  A run in its lane begins   *)
(* first; agentCommand itself ends one that never came there, or that had  *)
(* no event of its own.                                                    *)
Emit(r, phase) ==
  /\ r \in taken /\ ~ Over(r)
  /\ CASE phase = "start" -> said[r] = <<>> /\ Turn(r)
       [] phase = "delta" -> said[r] # <<>> /\ Len(said[r]) <= MaxDeltas[r]
       [] OTHER -> TRUE
  /\ said' = [said EXCEPT ![r] = Append(@, phase)]
  /\ IF greeted THEN Send([type |-> "event", id |-> r, phase |-> phase]) ELSE UNCHANGED wire
  /\ UNCHANGED <<conn, closes, out, post, runs, active, disturbed, http, greeted, taken, owed,
                 failed>>

(* agentCommand throws before it comes to the events of run r.             *)
CommandThrows(r) ==
  /\ r \in taken \ failed /\ said[r] = <<>>
  /\ failed' = failed \cup {r}
  /\ UNCHANGED <<conn, closes, out, wire, post, runs, active, disturbed, http, greeted, taken,
                 owed, said>>

(* The command is over: a second response to the request, on its           *)
(* connection.                                                             *)
RespondAgain(r) ==
  /\ r \in owed \cap Again /\ Over(r)
  /\ Send(Response("result", r, r \notin failed /\ Last(said[r]) = "end"))
  /\ owed' = owed \ {r}
  /\ UNCHANGED <<conn, closes, out, post, runs, active, disturbed, http, greeted, taken, failed,
                 said>>

(* What becomes of a run that was accepted, or that began.                 *)
GoesOn(r) == CommandThrows(r) \/ \E phase \in Phases \ {"delta"} : Emit(r, phase)

-----------------------------------------------------------------------------
Next ==
  \/ Reconnect \/ SendConnect \/ Close
  \/ \E r \in Runs : Post(r) \/ Create(r) \/ Accepted(r) \/ Refused(r)
  \/ HandleMessage
  \/ \E c \in Clients : Leave(c) \/ \E r \in Runs : Watch(c, r)
  \/ GatewayRejects \/ GatewayReceives
  \/ \E r \in Runs : CommandThrows(r) \/ RespondAgain(r) \/ \E phase \in Phases : Emit(r, phase)

(* The event loop goes on; the gateway reads what it is sent, and every    *)
(* run it accepted begins, ends or throws: its lane serves it, and it has  *)
(* a timeout.                                                              *)
Fairness ==
  /\ WF_vars(Reconnect) /\ WF_vars(SendConnect) /\ WF_vars(HandleMessage)
  /\ WF_vars(GatewayRejects) /\ WF_vars(GatewayReceives)
  /\ \A r \in Runs :
       /\ WF_vars(Create(r)) /\ WF_vars(Accepted(r)) /\ WF_vars(Refused(r))
       /\ WF_vars(GoesOn(r))

Spec == Init /\ [][Next]_vars
FairSpec == Spec /\ Fairness
-----------------------------------------------------------------------------
Event == [run : Runs \cup {None}, type : { ProductType(p) : p \in Phases } \cup {"stream.end"}]

(* The values of the variables.  A handler that awaits an answer has its   *)
(* request or the answer on the way, or at the gateway.                    *)
TypeOK ==
  /\ conn \in {"closed", "open", "up"} /\ closes \in 0..MaxCloses
  /\ out \in Seq([type : {"connect", "patch", "agent"}, id : Runs \cup {None}])
  /\ wire \in Seq([type : {"patch", "agent", "result"}, id : Runs, ok : BOOLEAN]
                  \cup [type : {"event"}, id : Runs, phase : Phases])
  /\ post \in [Runs -> PostPc] /\ configured \subseteq Sessions
  /\ runs \in [Runs -> [present : BOOLEAN, status : Statuses, events : Seq(Event),
                        sse : SUBSET Clients]]
  /\ active \in [Sessions -> Runs \cup {None}]
  /\ client \in [Clients -> [pc : {"none", "live", "ended"},
                             run : Runs \cup {None}, got : Seq(Event)]]
  /\ greeted \in BOOLEAN /\ taken \subseteq Runs /\ said \in [Runs -> Seq(Phases)]
  /\ owed \subseteq taken /\ failed \subseteq taken
  /\ disturbed \subseteq Runs
  /\ \A r \in Runs : post[r] = "agent" =>
       r \in { out[i].id : i \in DOMAIN out } \cup { wire[i].id : i \in DOMAIN wire }

(* All clients of a run, whenever they came, have been sent the same: its  *)
(* whole history, in order, and the end of the stream once, last, when the *)
(* run is terminal.  So nothing is added to a run that has ended.          *)
StreamsAgree ==
  \A c \in Clients :
    LET r == client[c].run
    IN /\ client[c].pc = "live" =>
            /\ c \in runs[r].sse /\ runs[r].status \notin Terminal
            /\ client[c].got = runs[r].events
       /\ client[c].pc = "ended" =>
            /\ runs[r].status \in Terminal
            /\ client[c].got = Append(runs[r].events, StreamEnd)

(* What the gateway emitted of run r.                                      *)
Said(r) == [i \in DOMAIN said[r] |-> [run |-> r, type |-> ProductType(said[r][i])]]

(* "Create run BEFORE sending to gateway so early events aren't lost"      *)
(* (api/conversations.ts): a run that no other run of its session and no   *)
(* loss of the connection disturbs has exactly its own events, in order,   *)
(* from the first on.                                                      *)
OwnEvents ==
  \A r \in Runs \ disturbed :
    post[r] = "accepted" =>
      /\ IsPrefix(runs[r].events, Said(r))
      /\ (\A i \in DOMAIN wire : ~ IsOf(wire[i], r)) => runs[r].events = Said(r)

(* Nothing hangs.  Every POST is answered, also when the connection is     *)
(* lost, or closed by the gateway because the request came before the      *)
(* connect; and the stream of an undisturbed run ends, whether the run     *)
(* completes, is aborted or fails, but for one whose command threw before  *)
(* its first event: the gateway tells this in its second response alone,   *)
(* which finds no request pending, and the stream never ends.              *)
NothingHangs ==
  /\ \A r \in Runs : post[r] # "new" ~> post[r] \in {"accepted", "refused"}
  /\ \A c \in Clients :
       client[c].pc = "live" ~>
         client[c].pc # "live" \/ client[c].run \in disturbed \cup failed
=============================================================================
