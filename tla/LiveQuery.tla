----------------------------- MODULE LiveQuery -----------------------------
(***************************************************************************)
(* One live query of one client: the client, the Gateway that holds its    *)
(* socket, the Cdbs that hold its registration and the Catalog that gives  *)
(* the authority, with every wait of the Gateway's tasks.                  *)
(*                                                                         *)
(* A task is the await chain of one handler.  What it reads from a callee  *)
(* it remembers, and acts on in a later step, when the callee may have     *)
(* changed.  The Gateway's own transactions are atomic.                    *)
(***************************************************************************)
EXTENDS Naturals, Sequences, FiniteSets, GatewayRegistrations

VARIABLES
    task,       \* settleSubscription, by the registration id it uses
    late,       \* subscribe calls in the network that nobody waits for
    clean,      \* cleanupGatewayGeneration: calls answered so far
    runs,       \* query runs of the materializer
    sends,      \* send attempts of the delivery
    deliv,      \* invalidations a Cdb has read and not yet settled
    sock,       \* connection of the verified socket, 0 for none
    listed,     \* its attachment lists the subscription in snapshotSubIds
    resume,     \* "no"; "try" a replay; "told" to refetch: resumeRefetchPendingSubIds
    base,       \* its lastCookie
    down, up,   \* frames to the client and from it
    cst,        \* state of the client's subscription
    shown,      \* version of the rows it shows, 0 for none
    cookie,     \* lastSnapshotCookie of the subscription
    last,       \* lastCookie of the client
    kept,       \* the rows are kept for a resumed connection (resumeRetainedSubs)
    timer,      \* the subscription's retry timer runs
    faults

taskVars == <<task, late>>
workVars == <<clean, runs, sends>>
sockVars == <<sock, listed, resume, base>>
clientVars == <<cst, shown, cookie, last, kept, timer>>
state == <<liveVars, gwVars, taskVars, workVars, deliv, sockVars, down, up, clientVars, faults>>
vars == <<mix, state>>

Conns == 1..(mix.gens + 1)

IdleTask == [at |-> "idle", cancelled |-> FALSE, conn |-> 0, shard |-> Source,
             auth |-> 0, ok |-> TRUE, seq |-> 0, replay |-> FALSE]

Frame(k) == [k |-> k, c |-> NoCookie]

SubscribeSteps == {"idle", "queued", "auth", "install", "send", "rpc", "ok", "absent", "throws"}

TypeOK ==
    /\ LiveTypeOK
    /\ GwTypeOK
    /\ task \in [Gens -> [at : SubscribeSteps, cancelled : BOOLEAN, conn : {0} \cup Conns,
                          shard : Shards, auth : Nat, ok : BOOLEAN, seq : Nat,
                          replay : BOOLEAN]]
    /\ late \subseteq [g : Gens, shard : Shards]
    /\ clean \in [Gens -> 0..2]
    /\ \A r \in runs : r.g \in Gens /\ r.tok \in Tokens
    /\ \A s \in sends : s.g \in Gens /\ s.tok \in Tokens
    /\ \A d \in deliv : d.c \in Shards /\ d.g \in Gens /\ d.seq <= clock[d.c]
    /\ sock \in {0} \cup Conns
    /\ listed \in BOOLEAN
    /\ resume \in {"no", "try", "told"}
    /\ base \in Cookies
    /\ cst \in {"closed", "pending", "live", "refetching", "error"}
    /\ shown \in 0..mix.rows
    /\ cookie \in Cookies
    /\ last \in Cookies
    /\ kept \in BOOLEAN
    /\ timer \in BOOLEAN
    /\ faults \in 0..mix.faults

Init ==
    /\ LiveInit
    /\ GwInit
    /\ task = [g \in Gens |-> IdleTask]
    /\ late = {}
    /\ clean = [g \in Gens |-> 0]
    /\ runs = {}
    /\ sends = {}
    /\ deliv = {}
    /\ sock = 1
    /\ listed = FALSE
    /\ resume = "no"
    /\ base = BaseCookie
    /\ down = <<>>
    /\ up = <<Frame("sub")>>
    /\ cst = "pending"
    /\ shown = 0
    /\ cookie = NoCookie
    /\ last = BaseCookie
    /\ kept = FALSE
    /\ timer = FALSE
    /\ faults = 0

\* crypto.randomUUID: an id that nobody remembers.
Unused(g) ==
    /\ gen[g] = NoGen
    /\ task[g].at = "idle"
    /\ \A c \in Shards : sub[c][g] = "absent"
    /\ \A r \in runs \cup sends \cup deliv \cup late : r.g # g
    /\ \A i \in DOMAIN down : down[i].c.g # g
    /\ \A i \in DOMAIN up : up[i].c.g # g
    /\ g \notin {cookie.g, last.g, base.g, replay.c.g}

NextGen == CHOOSE g \in Gens : Unused(g)

NewConns == {c \in Conns : \A g \in Gens : gen[g].conn # c /\ task[g].conn # c}

\* exactGatewaySocket
Ready(conn) == sock = conn /\ listed

\* settleRetiredGatewaySubscription
SettleRetired(conn, k) ==
    IF Ready(conn)
    THEN listed' = FALSE /\ down' = Append(down, Frame(k))
    ELSE UNCHANGED <<listed, down>>

\* sendError and send, to the task's socket while it is there
Tell(conn, k) == down' = IF sock = conn THEN Append(down, Frame(k)) ELSE down

Fault == faults < mix.faults /\ faults' = faults + 1

-----------------------------------------------------------------------------
(* Subscribing.                                                            *)

\* The next frame of the client, in the order it was sent.
Arrives(k) == up # <<>> /\ Head(up).k = k /\ up' = Tail(up)

\* A subscription of this connection that is not settled and not cancelled.
Pending == {g \in Gens : task[g].at # "idle" /\ task[g].conn = sock /\ ~task[g].cancelled}

\* onSub: a pending installation of the same subscription is cancelled and
\* waited for; a second one behind it is turned away.
OnSub ==
    /\ Arrives("sub")
    /\ \/ /\ \E p \in Pending : task[p].at = "queued"
          /\ Tell(sock, "retry")
          /\ UNCHANGED taskVars
       \/ /\ \A p \in Pending : task[p].at # "queued"
          /\ \E g \in Gens : Unused(g)
          /\ task' = [g \in Gens |->
                IF g = NextGen
                THEN [IdleTask EXCEPT !.conn = sock, !.replay = (resume = "try" /\ ~listed),
                        !.at = IF \E h \in Gens : task[h].at # "idle" /\ task[h].conn = sock
                               THEN "queued" ELSE "auth"]
                ELSE IF g \in Pending THEN [task[g] EXCEPT !.cancelled = TRUE]
                ELSE task[g]]
          /\ UNCHANGED <<late, down>>
    /\ UNCHANGED <<liveVars, gwVars, workVars, deliv, sockVars, clientVars, faults>>

Dequeue(g) ==
    /\ task[g].at = "queued"
    /\ \A h \in Gens \ {g} : task[h].at = "idle" \/ task[h].conn # task[g].conn
    /\ task' = [task EXCEPT ![g] = IF @.cancelled THEN IdleTask ELSE [@ EXCEPT !.at = "auth"]]
    /\ UNCHANGED <<liveVars, gwVars, late, workVars, deliv, sockVars, down, up, clientVars, faults>>

\* settleSubscription up to the Catalog's answer
SubAuth(g) ==
    /\ task[g].at = "auth"
    /\ task' = [task EXCEPT ![g].at = "install", ![g].auth = epoch,
                            ![g].ok = granted, ![g].shard = Route]
    /\ UNCHANGED <<liveVars, gwVars, late, workVars, deliv, sockVars, down, up, clientVars, faults>>

EndTask(g) == task' = [task EXCEPT ![g] = IdleTask]

\* resolveGatewaySnapshotReplay: the cookie the client resumed with, under the
\* same route and authority.  A replay also expires, 30 s after it was sent.
Replayable(t) == Retained = [c |-> base, shard |-> t.shard, auth |-> t.auth]

\* The installation itself.  A resumed connection is told to refetch unless
\* the snapshot it last saw is still retained for replay.
SubInstall(g) ==
    LET t == task[g] IN
    /\ t.at = "install"
    /\ \/ /\ t.cancelled \/ ~t.ok
          /\ EndTask(g)
          /\ IF t.cancelled THEN UNCHANGED down ELSE Tell(t.conn, "error")
          /\ UNCHANGED <<gwVars, resume>>
       \/ /\ ~t.cancelled /\ t.ok /\ t.replay
          /\ EndTask(g)
          /\ Tell(t.conn, "lagged")
          /\ resume' = "told"
          /\ replay' = Retained
          /\ UNCHANGED <<head, gen, snap>>
       \/ /\ ~t.cancelled /\ t.ok /\ (t.replay => Replayable(t))
          /\ Install(g, t.conn, t.shard, t.auth)
          /\ task' = [task EXCEPT ![g].at = "send"]
          /\ UNCHANGED <<down, resume>>
    /\ UNCHANGED <<liveVars, late, workVars, deliv, sock, listed, base, up, clientVars, faults>>

SubSend(g) ==
    /\ task[g].at = "send"
    /\ IF task[g].cancelled
       THEN EndTask(g) /\ DeleteNeverRegistered(g)
       ELSE task' = [task EXCEPT ![g].at = "rpc"] /\ UNCHANGED gwVars
    /\ UNCHANGED <<liveVars, late, workVars, deliv, sockVars, down, up, clientVars, faults>>

\* Cdb.subscribe runs; its answer waits for the task.
CdbSubscribe(g) ==
    LET t == task[g] IN
    /\ t.at = "rpc"
    /\ Subscribe(t.shard, g)
    /\ task' = [task EXCEPT ![g].at = SubscribeAnswer(t.shard, g), ![g].seq = clock[t.shard]]
    /\ UNCHANGED <<rows, clock, out, fenced, authSeen, catalogVars, gwVars, late, workVars,
                   deliv, sockVars, down, up, clientVars, faults>>

\* The same for a call nobody waits for any more.
CdbSubscribeLate(l) ==
    /\ late' = late \ {l}
    /\ Subscribe(l.shard, l.g)
    /\ UNCHANGED <<rows, clock, out, fenced, authSeen, catalogVars, gwVars, task, workVars,
                   deliv, sockVars, down, up, clientVars, faults>>

\* The answer is handled.
SubAnswer(g) ==
    LET t == task[g] IN
    /\ t.at \in {"ok", "absent", "throws"}
    /\ EndTask(g)
    /\ CASE t.at = "throws" ->
              /\ SettleAmbiguous(g)
              /\ IF t.cancelled THEN UNCHANGED down ELSE Tell(t.conn, "retry")
              /\ UNCHANGED <<listed, resume>>
         [] t.at = "absent" ->
              /\ DeleteNeverRegistered(g)
              /\ IF t.cancelled \/ gen[g].cdb # "pending"
                 THEN UNCHANGED down ELSE Tell(t.conn, "refetch")
              /\ UNCHANGED <<listed, resume>>
         [] t.at = "ok" /\ (t.cancelled \/ ~CanActivate(g)) ->
              SettleAmbiguous(g) /\ UNCHANGED <<down, listed, resume>>
         [] OTHER ->
              /\ Activate(g, t.seq)
              /\ listed' = TRUE
              /\ resume' = IF resume = "told" /\ ~t.replay THEN "try" ELSE resume
              /\ down' = IF t.replay THEN Append(down, [k |-> "snap", c |-> base]) ELSE down
    /\ UNCHANGED <<liveVars, late, workVars, deliv, sock, base, up, clientVars, faults>>

Call(g) == [g |-> g, shard |-> task[g].shard]

\* The call fails before or after the Cdb has run it, or is left behind in
\* the network.
SubCallFails(g) ==
    /\ task[g].at \in {"rpc", "ok", "absent"}
    /\ Fault
    /\ task' = [task EXCEPT ![g].at = "throws"]
    /\ late' \in IF task[g].at = "rpc" /\ mix.slow THEN {late, late \cup {Call(g)}} ELSE {late}
    /\ UNCHANGED <<liveVars, gwVars, workVars, deliv, sockVars, down, up, clientVars>>

\* The install recovery is due: nobody has settled the installation in 30 s.
Recover(g) ==
    /\ gen[g].cdb = "pending"
    /\ mix.slow \/ (task[g].at = "idle" /\ \A l \in late : l.g # g)
    /\ MarkAmbiguous(g)
    /\ UNCHANGED <<liveVars, taskVars, workVars, deliv, sockVars, down, up, clientVars, faults>>

-----------------------------------------------------------------------------
(* Cleanup of retired generations (cleanupGatewayGeneration).              *)

ToClean(g) == gen[g].life = "retiring" /\ gen[g].cdb = "retiring"

CleanUnsubscribe(g) ==
    /\ ToClean(g)
    /\ clean[g] = 0
    /\ Unsubscribe(gen[g].shard, g)
    /\ clean' = [clean EXCEPT ![g] = 1]
    /\ UNCHANGED <<rows, clock, fenced, authSeen, catalogVars, gwVars, taskVars, runs, sends,
                   deliv, sockVars, down, up, clientVars, faults>>

CleanFinalize(g) ==
    /\ clean[g] = 1
    /\ FinalizeUnsubscribeOk(gen[g].shard, g)
    /\ FinalizeUnsubscribe(gen[g].shard, g)
    /\ clean' = [clean EXCEPT ![g] = 2]
    /\ UNCHANGED <<rows, clock, out, fenced, authSeen, catalogVars, gwVars, taskVars, runs, sends,
                   deliv, sockVars, down, up, clientVars, faults>>

CleanDelete(g) ==
    /\ clean[g] = 2
    /\ DeleteRetired(g)
    /\ clean' = [clean EXCEPT ![g] = 0]
    /\ UNCHANGED <<liveVars, taskVars, runs, sends, deliv, sockVars, down, up, clientVars, faults>>

\* An answer is lost: the whole cleanup is tried again.
CleanFails(g) ==
    /\ clean[g] # 0
    /\ Fault
    /\ clean' = [clean EXCEPT ![g] = 0]
    /\ UNCHANGED <<liveVars, gwVars, taskVars, runs, sends, deliv, sockVars, down, up, clientVars>>

-----------------------------------------------------------------------------
(* Invalidations from the Cdb (drainInvalidations).                        *)

\* The outbox row is read and sent.
SendInvalidation(c, g) ==
    LET d == [c |-> c, g |-> g, seq |-> out[c][g], at |-> "sent"] IN
    /\ out[c][g] # 0
    /\ \A e \in deliv : e.c # c \/ e.g # g
    /\ deliv' = deliv \cup {d}
    /\ UNCHANGED <<liveVars, gwVars, taskVars, workVars, sockVars, down, up, clientVars, faults>>

InvalidateSubscriptions(d) ==
    /\ d.at = "sent"
    /\ Invalidate(d.g, d.seq)
    /\ deliv' = (deliv \ {d}) \cup {[d EXCEPT !.at = "answered"]}
    /\ UNCHANGED <<liveVars, taskVars, workVars, sockVars, down, up, clientVars, faults>>

\* Accepted or stale, the answered row is dropped.
AcknowledgeInvalidation(d) ==
    /\ d.at = "answered"
    /\ Acknowledge(d.c, d.g, d.seq)
    /\ deliv' = deliv \ {d}
    /\ UNCHANGED <<rows, clock, sub, fenced, authSeen, catalogVars, gwVars, taskVars, workVars,
                   sockVars, down, up, clientVars, faults>>

\* The call or its answer is lost; the row stays due.
InvalidationFails(d) ==
    /\ Fault
    /\ deliv' = deliv \ {d}
    /\ UNCHANGED <<liveVars, gwVars, taskVars, workVars, sockVars, down, up, clientVars>>

-----------------------------------------------------------------------------
(* Query runs (GatewaySnapshotMaterializer.runCandidate).                  *)

RunsOf(g) == {r.tok : r \in {q \in runs : q.g = g}}

\* A lease is free, or has expired with or without its owner.
LeaseOver(g) ==
    \/ gen[g].token \notin RunsOf(g) /\ UNCHANGED faults
    \/ gen[g].token \in RunsOf(g) /\ Fault

\* A candidate whose socket is gone is retired before it is claimed.
RunAbandoned(g) ==
    /\ Due(g)
    /\ gen[g].token \notin RunsOf(g)
    /\ ~Ready(gen[g].conn)
    /\ Retire(g)
    /\ UNCHANGED <<liveVars, taskVars, workVars, deliv, sockVars, down, up, clientVars, faults>>

RunClaim(g) ==
    /\ Due(g)
    /\ Ready(gen[g].conn)
    /\ LeaseOver(g)
    /\ \E t \in Tokens \ ({gen[g].token} \cup RunsOf(g)) :
          /\ \A u \in Tokens : u < t => u \in {gen[g].token} \cup RunsOf(g)
          /\ ClaimDirty(g, t)
          /\ runs' = runs \cup {[g |-> g, tok |-> t, target |-> gen[g].dirty, at |-> "auth",
                                 shard |-> gen[g].shard, auth |-> 0, see |-> "none", rows |-> 0]}
    /\ UNCHANGED <<liveVars, taskVars, clean, sends, deliv, sockVars, down, up, clientVars>>

\* resolvePartitionAuthRoute and checkGatewayAuthorityFreshness, as the
\* Catalog answers them.
Freshness(shard, auth) ==
    CASE ~granted -> "retire"
      [] granted /\ Route # shard -> "refetch"
      [] granted /\ Route = shard /\ epoch # auth -> "changed"
      [] OTHER -> "fresh"

RunTo(r, s) == runs' = (runs \ {r}) \cup {s}

RunAuth(r) ==
    /\ r.at = "auth"
    /\ RunTo(r, [r EXCEPT !.at = "query", !.auth = epoch, !.see = Freshness(r.shard, epoch)])
    /\ UNCHANGED <<liveVars, gwVars, taskVars, clean, sends, deliv, sockVars, down, up,
                   clientVars, faults>>

\* queryRegistered
RunQuery(r) ==
    /\ r.at = "query"
    /\ r.see = "fresh"
    /\ RunTo(r, [r EXCEPT !.at = QueryAnswer(r.shard, r.g), !.rows = rows])
    /\ UNCHANGED <<liveVars, gwVars, taskVars, clean, sends, deliv, sockVars, down, up,
                   clientVars, faults>>

\* The authority is checked again after the query.
RunFresh(r) ==
    /\ r.at \in {"ok", "stale"}
    /\ RunTo(r, [r EXCEPT !.at = IF r.at = "ok" THEN "stage" ELSE "failed",
                          !.see = Freshness(r.shard, r.auth)])
    /\ UNCHANGED <<liveVars, gwVars, taskVars, clean, sends, deliv, sockVars, down, up,
                   clientVars, faults>>

\* retireWithSettlement, while the run still owns its generation
RetireRun(r, k) ==
    IF OwnsRun(r.g, r.tok)
    THEN Retire(r.g) /\ SettleRetired(gen[r.g].conn, k)
    ELSE UNCHANGED <<gwVars, listed, down>>

StageRun(r) ==
    IF CanStage(r.g, r.tok, r.target)
    THEN Stage(r.g, r.target, r.rows, r.auth)
    ELSE UNCHANGED gwVars

\* The end of a run, by what it was told.
RunSettle(r) ==
    /\ runs' = runs \ {r}
    /\ \/ /\ r.at = "bad" \/ (r.at \in {"query", "stage", "failed"} /\ r.see = "retire")
          /\ RetireRun(r, "error")
       \/ /\ r.at \in {"query", "stage", "failed"} /\ r.see = "refetch"
          /\ RetireRun(r, "refetch")
       \/ /\ \/ r.at = "failed" /\ r.see \in {"changed", "fresh"}
             \/ r.at = "stage" /\ r.see = "changed"
          /\ FailRun(r.g, r.tok)
          /\ UNCHANGED <<listed, down>>
       \/ /\ r.at = "stage" /\ r.see = "fresh" /\ Ready(gen[r.g].conn)
          /\ StageRun(r)
          /\ UNCHANGED <<listed, down>>
       \/ /\ r.at = "stage" /\ r.see = "fresh" /\ ~Ready(gen[r.g].conn)
          /\ IF OwnsRun(r.g, r.tok) THEN Retire(r.g) ELSE UNCHANGED gwVars
          /\ UNCHANGED <<listed, down>>
    /\ UNCHANGED <<liveVars, taskVars, clean, sends, deliv, sock, resume, base, up, clientVars, faults>>

\* A call of the run fails.
RunFails(r) ==
    /\ Fault
    /\ runs' = runs \ {r}
    /\ FailRun(r.g, r.tok)
    /\ UNCHANGED <<liveVars, taskVars, clean, sends, deliv, sockVars, down, up, clientVars>>
-----------------------------------------------------------------------------
(* Delivery (GatewaySnapshotDelivery).                                     *)

SendsOf(g) == {s.tok : s \in {q \in sends : q.g = g}}

InFlight(g) == (\E i \in DOMAIN down : down[i].c.g = g) \/ (\E i \in DOMAIN up : up[i].c.g = g)

\* A claim is free, is left by a restart, or expires before the
\* acknowledgement arrives.
ClaimOver(g) ==
    \/ snap[g].claim \notin SendsOf(g) /\ ~InFlight(g) /\ UNCHANGED faults
    \/ (snap[g].claim \in SendsOf(g) \/ InFlight(g)) /\ Fault

SendClaim(g) ==
    /\ Serving(g)
    /\ Staged(g)
    /\ ClaimOver(g)
    /\ \E t \in Tokens \ ({snap[g].claim} \cup SendsOf(g)) :
          /\ \A u \in Tokens : u < t => u \in {snap[g].claim} \cup SendsOf(g)
          /\ Claim(g, t)
          /\ sends' = sends \cup {[g |-> g, tok |-> t, target |-> snap[g].target,
                                   rows |-> snap[g].rows, shard |-> gen[g].shard,
                                   auth |-> gen[g].auth, see |-> "none"]}
    /\ UNCHANGED <<liveVars, taskVars, clean, runs, deliv, sockVars, down, up, clientVars>>

SendCheck(s) ==
    /\ s.see = "none"
    /\ sends' = (sends \ {s}) \cup {[s EXCEPT !.see = Freshness(s.shard, s.auth)]}
    /\ UNCHANGED <<liveVars, gwVars, taskVars, clean, runs, deliv, sockVars, down, up,
                   clientVars, faults>>

RetireSend(s, k) ==
    IF OwnsSend(s.g, s.tok)
    THEN Retire(s.g) /\ SettleRetired(gen[s.g].conn, k)
    ELSE UNCHANGED <<gwVars, listed, down>>

\* markGatewaySnapshotSendBaseCookie lets only the owner of the claim send.
SnapshotFrame(s) == [k |-> "snap", c |-> [g |-> s.g, target |-> s.target, rows |-> s.rows]]

\* The end of an attempt, by what it was told.
SendSettle(s) ==
    /\ sends' = sends \ {s}
    /\ \/ s.see = "retire" /\ RetireSend(s, "error")
       \/ s.see = "refetch" /\ RetireSend(s, "refetch")
       \/ s.see = "changed" /\ Discard(s.g, s.tok) /\ UNCHANGED <<listed, down>>
       \/ /\ s.see = "fresh" /\ ~Ready(gen[s.g].conn)
          /\ IF OwnsSend(s.g, s.tok) THEN Retire(s.g) ELSE UNCHANGED gwVars
          /\ UNCHANGED <<listed, down>>
       \/ /\ s.see = "fresh" /\ Ready(gen[s.g].conn)
          /\ down' = IF OwnsSend(s.g, s.tok) THEN Append(down, SnapshotFrame(s)) ELSE down
          /\ UNCHANGED <<gwVars, listed>>
    /\ UNCHANGED <<liveVars, taskVars, clean, runs, deliv, sock, resume, base, up, clientVars, faults>>

\* The authority cannot be checked, or the socket refuses the frame.
SendFails(s) ==
    /\ Fault
    /\ sends' = sends \ {s}
    /\ FailSend(s.g, s.tok)
    /\ UNCHANGED <<liveVars, taskVars, clean, runs, deliv, sockVars, down, up, clientVars>>

OnAck ==
    /\ Arrives("ack")
    /\ AcknowledgeSnapshot(sock, Head(up).c)
    /\ base' = IF AckCounts(sock, Head(up).c) THEN Head(up).c ELSE base
    /\ UNCHANGED <<liveVars, taskVars, workVars, deliv, sock, listed, resume, down, clientVars, faults>>

-----------------------------------------------------------------------------
(* Sockets and restarts.                                                   *)

Cancel(conn) == [g \in Gens |-> IF task[g].at # "idle" /\ task[g].conn = conn
                                THEN [task[g] EXCEPT !.cancelled = TRUE] ELSE task[g]]

\* retireCurrentGatewayRegistrationsForConnection, retireCurrentGatewayRegistration
RetireConnection(r) ==
    IF head # 0 /\ gen[head].conn = sock
    THEN RetireKeeping(head, r)
    ELSE UNCHANGED <<head, gen, snap>> /\ replay' = r

OnUnsub ==
    /\ Arrives("unsub")
    /\ task' = Cancel(sock)
    /\ RetireConnection(NoReplay)
    /\ listed' = FALSE
    /\ resume' = IF resume = "told" THEN "try" ELSE resume
    /\ UNCHANGED <<liveVars, late, workVars, deliv, sock, base, down, clientVars, faults>>

\* The client's onClose
ClientClose ==
    /\ kept' = (kept \/ cookie # NoCookie)
    /\ timer' = FALSE
    /\ UNCHANGED <<cst, shown, cookie, last>>

Break ==
    /\ sock' = 0 /\ listed' = FALSE /\ resume' = "no" /\ base' = NoCookie
    /\ down' = <<>> /\ up' = <<>>
    /\ ClientClose

\* webSocketClose
CleanupGatewaySocket ==
    /\ sock # 0
    /\ Fault
    /\ Break
    /\ task' = Cancel(sock)
    /\ RetireConnection(IF head # 0 /\ gen[head].conn = sock THEN Retained ELSE replay)
    /\ UNCHANGED <<liveVars, late, workVars, deliv>>

\* Every task ends and every socket breaks; the stores remain.
Restart ==
    /\ Fault
    /\ task' = [g \in Gens |-> IdleTask]
    /\ late' \in {late, late \cup {Call(g) : g \in {h \in Gens : task[h].at = "rpc"}}}
    /\ clean' = [g \in Gens |-> 0]
    /\ runs' = {} /\ sends' = {}
    /\ deliv' = {d \in deliv : d.at = "answered"}
    /\ Break
    /\ UNCHANGED <<liveVars, gwVars>>

\* The alarm retires a current generation whose socket is gone.
ReconcileAbandoned(g) ==
    /\ Serving(g)
    /\ ~Ready(gen[g].conn)
    /\ RetireKeeping(g, Retained)
    /\ UNCHANGED <<liveVars, taskVars, workVars, deliv, sockVars, down, up, clientVars, faults>>

-----------------------------------------------------------------------------
(* The client.                                                             *)

\* The handshake of a new socket, after which every subscription is sent.
Reconnect ==
    /\ sock = 0
    /\ cst \notin {"closed", "error"}
    /\ \E c \in NewConns : (\A e \in NewConns : c <= e) /\ sock' = c
    /\ resume' = IF last = NoCookie THEN "no" ELSE "try"
    /\ base' = IF last = NoCookie THEN BaseCookie ELSE last
    /\ last' = base'
    /\ up' = <<Frame("sub")>>
    /\ UNCHANGED <<liveVars, gwVars, taskVars, workVars, deliv, listed, down,
                   cst, shown, cookie, kept, timer, faults>>

Idle == UNCHANGED <<liveVars, gwVars, taskVars, workVars, deliv, sockVars>>

\* The retry timer sends the subscription again.
RetrySubscription ==
    /\ timer
    /\ sock # 0
    /\ timer' = FALSE
    /\ up' = Append(up, Frame("sub"))
    /\ Idle
    /\ UNCHANGED <<down, cst, shown, cookie, last, kept, faults>>

\* The user drops the query.
ClientUnsubscribe ==
    /\ cst \in {"pending", "live", "refetching"}
    /\ cst' = "closed" /\ shown' = 0 /\ cookie' = NoCookie /\ kept' = FALSE /\ timer' = FALSE
    /\ up' = IF sock # 0 THEN Append(up, Frame("unsub")) ELSE up
    /\ Idle
    /\ UNCHANGED <<down, last, faults>>

\* The rows kept for a resumed connection are dropped after a while.
ExpireRetainedResumeState ==
    /\ kept
    /\ cst' = "refetching" /\ shown' = 0 /\ cookie' = NoCookie /\ kept' = FALSE
    /\ last' = NoCookie
    /\ Idle
    /\ UNCHANGED <<down, up, timer, faults>>

\* The rows are dropped until the next snapshot.
Reset(to) == cst' = to /\ shown' = 0 /\ cookie' = NoCookie /\ kept' = FALSE /\ UNCHANGED last

ShowSnapshot(c) ==
    /\ up' = Append(up, [k |-> "ack", c |-> c])
    /\ kept' = FALSE
    /\ IF cookie = c
       THEN UNCHANGED <<cst, shown, cookie, last, timer>>
       ELSE cst' = "live" /\ shown' = c.rows /\ cookie' = c /\ last' = c /\ timer' = FALSE

ClientReceive ==
    /\ down # <<>>
    /\ down' = Tail(down)
    /\ LET m == Head(down) IN
       CASE cst \in {"closed", "error"} \/ (m.k = "refetch" /\ timer) -> UNCHANGED <<clientVars, up>>
         [] m.k = "snap" -> ShowSnapshot(m.c)
         [] m.k = "lagged" -> Reset("refetching") /\ timer' = FALSE /\ up' = Append(up, Frame("sub"))
         [] m.k \in {"refetch", "retry"} -> Reset("refetching") /\ timer' = TRUE /\ UNCHANGED up
         [] OTHER -> Reset("error") /\ timer' = FALSE /\ UNCHANGED up
    /\ Idle
    /\ UNCHANGED faults

-----------------------------------------------------------------------------
gatewayVars == <<gwVars, taskVars, workVars, deliv, sockVars, down, up, clientVars, faults>>

DoMutate == Mutate /\ UNCHANGED gatewayVars
DoFence == ActivateRoutingFence /\ UNCHANGED gatewayVars
DoCancelFence == CancelRoutingFence /\ Fault
                 /\ UNCHANGED <<gwVars, taskVars, workVars, deliv, sockVars, down, up, clientVars>>
DoCutover == CutoverRoute /\ UNCHANGED gatewayVars
DoMutateAuth == epoch < mix.epochs /\ (\E still \in BOOLEAN : MutateAuth(still)) /\ UNCHANGED gatewayVars
DoAuthStep(c) ==
    /\ SendAuthInvalidation(c) \/ InvalidateAuthScope(c) \/ CompleteAuthTarget(c)
    /\ UNCHANGED gatewayVars
DoDeferAuth(c) == DeferAuthTarget(c) /\ Fault
                  /\ UNCHANGED <<gwVars, taskVars, workVars, deliv, sockVars, down, up, clientVars>>
DoPruneAuth(c) == PruneInactiveScopes(c) /\ UNCHANGED gatewayVars

SubStep(g) == \/ Dequeue(g) \/ SubAuth(g) \/ SubInstall(g) \/ SubSend(g)
              \/ CdbSubscribe(g) \/ SubAnswer(g)
CleanStep(g) == CleanUnsubscribe(g) \/ CleanFinalize(g) \/ CleanDelete(g)
RunStep(r) == RunAuth(r) \/ RunQuery(r) \/ RunFresh(r) \/ RunSettle(r)
SendStep(s) == SendCheck(s) \/ SendSettle(s)
DelivStep(d) == InvalidateSubscriptions(d) \/ AcknowledgeInvalidation(d)

Next ==
    /\ UNCHANGED mix
    /\ \/ DoMutate \/ DoFence \/ DoCancelFence \/ DoCutover \/ DoMutateAuth
       \/ \E c \in Shards : DoAuthStep(c) \/ DoDeferAuth(c) \/ DoPruneAuth(c)
       \/ OnSub \/ OnUnsub \/ OnAck
       \/ ClientReceive \/ Reconnect \/ RetrySubscription \/ ClientUnsubscribe \/ ExpireRetainedResumeState
       \/ CleanupGatewaySocket \/ Restart
       \/ \E g \in Gens : \/ SubStep(g) \/ SubCallFails(g) \/ Recover(g)
                          \/ CleanStep(g) \/ CleanFails(g)
                          \/ RunAbandoned(g) \/ RunClaim(g) \/ SendClaim(g) \/ ReconcileAbandoned(g)
       \/ \E l \in late : CdbSubscribeLate(l)
       \/ \E c \in Shards, g \in Gens : SendInvalidation(c, g)
       \/ \E d \in deliv : DelivStep(d) \/ InvalidationFails(d)
       \/ \E r \in runs : RunStep(r) \/ RunFails(r)
       \/ \E s \in sends : SendStep(s) \/ SendFails(s)

Spec == Init /\ [][Next]_vars

\* Each object keeps working while it has work, and the client while it is
\* connected or wants to be: alarms, retry timers and reconnects.
ClientWork == ClientReceive \/ Reconnect \/ RetrySubscription

FrameWork == OnSub \/ OnUnsub \/ OnAck

InstallWork == \E g \in Gens : SubStep(g) \/ Recover(g)

CleanWork == \E g \in Gens : CleanStep(g) \/ ReconcileAbandoned(g)

SnapshotWork ==
    \/ \E g \in Gens : RunAbandoned(g) \/ RunClaim(g) \/ SendClaim(g)
    \/ \E r \in runs : RunStep(r)
    \/ \E s \in sends : SendStep(s)

CdbWork ==
    \/ \E c \in Shards, g \in Gens : SendInvalidation(c, g)
    \/ \E d \in deliv : DelivStep(d)
    \/ \E l \in late : CdbSubscribeLate(l)

CatalogWork == DoCutover \/ \E c \in Shards : DoAuthStep(c)

FairSpec ==
    /\ Spec
    /\ WF_state(ClientWork)
    /\ WF_state(FrameWork)
    /\ WF_state(InstallWork)
    /\ WF_state(CleanWork)
    /\ WF_state(SnapshotWork)
    /\ WF_state(CdbWork)
    /\ WF_state(CatalogWork)

-----------------------------------------------------------------------------
(* Properties.                                                             *)

\* An active generation is the current one and is registered at its Cdb,
\* however late the answer that activates it: one without a head is never
\* cleaned up, one without a registration never hears of a change
\* (activateGatewaySubscription against the install recovery).
ActiveIsCurrent ==
    \A g \in Gens :
        gen[g].life = "active" => head = g /\ sub[gen[g].shard][g] = "active"

\* While a client is live and shows rows that have changed, or that it may no
\* longer see, its refresh is owed: an auth epoch its Cdb is still to be told,
\* an invalidation in the Cdb's outbox, an undelivered dirty version or the
\* first snapshot (enqueueInvalidations, invalidateAuthScope,
\* acknowledgeInvalidations, stageGatewaySnapshot, acknowledgeGatewaySnapshot).
StaleIsOwed ==
    \A g \in Gens :
        LET c == gen[g].shard IN
        /\ Serving(g) /\ Ready(gen[g].conn)
        /\ cst = "live" /\ (shown # rows \/ ~granted)
        => \/ authTo[c] > authSeen[c]
           \/ out[c][g] # 0
           \/ gen[g].initial
           \/ gen[g].dirty > gen[g].delivered

\* A registration at a Cdb is known to the Gateway, so that it is cleaned up
\* once it is not wanted, as long as no subscribe call outlasts the install
\* recovery (markPendingGatewaySubscriptionAmbiguous,
\* deleteNeverRegisteredGatewaySubscription, cleanupGatewayGeneration).
NoOrphan ==
    \A c \in Shards, g \in Gens :
        ~mix.slow /\ sub[c][g] = "active" => gen[g].life # "none" /\ gen[g].shard = c

\* Client, Gateway and Cdb agree on which generation serves, and no Cdb serves
\* one nobody wants.
RegistrationsAgree == ActiveIsCurrent /\ NoOrphan

\* The client never goes back to an older version of the rows, across
\* generations, resumed connections and replays too (stageGatewaySnapshot,
\* markGatewaySnapshotSendBaseCookie, installGatewayRegistration).
NeverOlder == [][last.g # 0 /\ last'.g # 0 => last.rows <= last'.rows]_vars

\* Once changes and failures end, the client shows the current rows, unless
\* the query is closed or refused.
Converges == <>[](cst \in {"closed", "error"} \/ (cst = "live" /\ shown = rows))

\* Rows are taken from a client that has lost its authority over them
\* (the auth invalidation of the Catalog, the freshness checks of the Gateway).
RevokedIsCleared == ~granted ~> shown = 0

\* Once changes and failures end, no Cdb holds a registration or a tombstone
\* except for what the Gateway serves.
NothingLeftBehind ==
    <>[](\A c \in Shards, g \in Gens :
            sub[c][g] # "absent" => Serving(g) /\ gen[g].shard = c)
=============================================================================
