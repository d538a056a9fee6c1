----------------------------- MODULE RustClient -----------------------------
(***************************************************************************)
(* The native client: callers on any thread put commands into a bounded    *)
(* queue, one session thread owns the socket, the subscriptions and the    *)
(* unsettled mutations, reconnects and resends them, and settles every     *)
(* caller.  The server behind the socket is external: it answers in order, *)
(* applies a mutation id once, and a frame of a lost connection may still  *)
(* be applied later or never.                                              *)
(*                                                                         *)
(* Deadlines may expire at any time.  Rows are the number of the server's  *)
(* version (0: none), which is also the cookie of the snapshot.            *)
(***************************************************************************)
EXTENDS Naturals, Sequences, FiniteSets, SequencesExt

CONSTANT Mixes  \* bounds and faults: see MCResources

\* What the theorems need of a mix.
MixesOK == \A m \in Mixes : m.subs \in Nat /\ m.muts \in Nat /\ m.cap \in Nat

VARIABLES mix, s

vars == <<mix, s>>
On == mix.part = "rust_client"

Subs == 1..mix.subs
Muts == 1..mix.muts
NoSub == [at |-> "none"]
NewSub == [at |-> "live", rows |-> 0, cookie |-> 0, due |-> FALSE, replayed |-> FALSE]
NoRefresh == [at |-> "none"]

Init ==
  /\ mix \in Mixes
  /\ s = [conn |-> "open", stop |-> FALSE, cmds |-> <<>>, call |-> [m \in Muts |-> "idle"],
          mut |-> [m \in Muts |-> "none"], handle |-> [i \in Subs |-> "idle"],
          chan |-> [i \in Subs |-> 0], sub |-> [i \in Subs |-> NoSub], last |-> 0,
          kept |-> {}, window |-> FALSE, resume |-> 0, refresh |-> NoRefresh, told |-> "none",
          up |-> <<>>, down |-> <<>>, regs |-> {}, sent |-> [i \in Subs |-> 0], v |-> 1,
          applied |-> {}, late |-> {}, faults |-> 0, trouble |-> 0]

Fault == s.faults < mix.faults
Trouble == s.trouble < mix.trouble
Live(st) == {i \in Subs : st.sub[i].at = "live"}
Up(st, frame) == IF st.conn = "open" THEN [st EXCEPT !.up = Append(@, frame)] ELSE st

-----------------------------------------------------------------------------
(* The callers. *)

Enqueue(st, command) == [st EXCEPT !.cmds = Append(@, command)]
Room == ~s.stop /\ s.conn # "closed" /\ Len(s.cmds) < mix.queue

BeginMutation(m) ==
  /\ Room /\ s.call[m] = "idle"
  /\ s' = Enqueue([s EXCEPT !.call[m] = "waiting"], [t |-> "mut", id |-> m])

(* an async caller drops its future *)
GiveUp(m) ==
  /\ s.call[m] = "waiting" /\ mix.cancel
  /\ s' = [s EXCEPT !.call[m] = "dropped"]

Subscribe(i) ==
  /\ Room /\ s.handle[i] = "idle"
  /\ s' = Enqueue([s EXCEPT !.handle[i] = "open"], [t |-> "sub", id |-> i])

(* Drop: with a full queue the session is not told. *)
DropHandle(i) ==
  /\ s.handle[i] = "open" /\ mix.cancel
  /\ LET st == [s EXCEPT !.handle[i] = "dropped"] IN
     s' = IF Room THEN Enqueue(st, [t |-> "unsub", id |-> i]) ELSE st

Receive(i) ==
  /\ s.handle[i] = "open" /\ s.chan[i] > 0
  /\ s' = [s EXCEPT !.chan[i] = @ - 1]

RefreshAuth ==
  /\ Room /\ mix.refresh /\ s.told = "none"
  /\ s' = Enqueue([s EXCEPT !.told = "waiting"], [t |-> "auth", id |-> 0])

Close == /\ mix.close /\ ~s.stop
         /\ s' = [s EXCEPT !.stop = TRUE]

-----------------------------------------------------------------------------
(* The session thread. *)

Settle(st, m, outcome) ==
  [st EXCEPT !.mut[m] = "none", !.call[m] = IF @ = "waiting" THEN outcome ELSE @]

FailRefresh(st) ==
  [st EXCEPT !.refresh = NoRefresh,
             !.told = IF st.refresh.at = "pending" /\ st.refresh.asked THEN "failed" ELSE @]

Release(st, i) ==
  LET kept == st.kept \ {i} IN
  [st EXCEPT !.kept = kept, !.window = @ /\ kept # {}, !.resume = IF kept = {} THEN 0 ELSE @]

Deliverable(st, i) == st.handle[i] = "open" /\ st.chan[i] < mix.cap
Retire(st, i) == [st EXCEPT !.sub[i] = NoSub]
(* A consumer that does not read, or is gone, loses its subscription. *)
Emit(st, i) == IF Deliverable(st, i) THEN [st EXCEPT !.chan[i] = @ + 1] ELSE Retire(st, i)

FateSilent(st, m) == IF st.mut[m] = "sent" THEN "unknown" ELSE "waiting"
Fate(st, m) == IF st.mut[m] = "sent" THEN "unknown" ELSE "failed"
(* Commands still queued are dropped with the thread: their callers fail. *)
Finish(st) ==
  LET queued == {c.id : c \in {st.cmds[k] : k \in {k \in 1..Len(st.cmds) : st.cmds[k].t = "mut"}}}
      auth == \E k \in 1..Len(st.cmds) : st.cmds[k].t = "auth" IN
  [FailRefresh(st) EXCEPT
     !.conn = "closed", !.sub = [i \in Subs |-> NoSub], !.cmds = <<>>,
     !.up = <<>>, !.down = <<>>, !.regs = {},
     !.late = @ \cup {st.up[k].id : k \in {k \in 1..Len(st.up) : st.up[k].t = "mut"}},
     !.call = [m \in Muts |-> IF @[m] # "waiting" THEN @[m]
                              ELSE IF m \in queued THEN "failed"
                              ELSE IF st.mut[m] # "none" THEN Fate(st, m) ELSE @[m]],
     !.mut = [m \in Muts |-> "none"],
     !.told = IF auth \/ (st.refresh.at = "pending" /\ st.refresh.asked) THEN "failed" ELSE @]

Stop == /\ s.stop /\ s.conn # "closed"
        /\ s' = Finish(s)

Kept(st) == {i \in Live(st) : st.sub[i].rows # 0 \/ st.sub[i].cookie # 0}
(* The socket is gone: what the server had not read may still arrive. *)
BeginReconnect(st) ==
  LET kept == IF st.window THEN st.kept ELSE Kept(st) IN
  [FailRefresh(st) EXCEPT
     !.conn = "reconnecting", !.up = <<>>, !.down = <<>>, !.regs = {},
     !.late = @ \cup {st.up[k].id : k \in {k \in 1..Len(st.up) : st.up[k].t = "mut"}},
     !.kept = kept, !.window = kept # {}, !.resume = IF st.window THEN @ ELSE IF kept = {} THEN 0 ELSE st.last,
     !.sub = [i \in Subs |-> IF st.sub[i].at = "live" /\ ~st.window THEN [st.sub[i] EXCEPT !.replayed = FALSE] ELSE st.sub[i]]]

Disconnect ==
  /\ s.conn = "open" /\ Fault
  /\ s' = [BeginReconnect(s) EXCEPT !.faults = @ + 1]

-----------------------------------------------------------------------------
(* connect_and_welcome: every subscription and mutation is sent again, a   *)
(* mutation that was never sent and whose caller is gone is dropped.       *)

Wanted(m) == s.mut[m] # "none" /\ (s.mut[m] = "sent" \/ s.call[m] = "waiting")
DispatchedUnsent(part) == [m \in Muts |-> IF Wanted(m) THEN s.mut[m] ELSE "none"]
Dispatched(part) == [m \in Muts |-> IF ~Wanted(m) THEN "none" ELSE IF m \in part THEN "sent" ELSE s.mut[m]]
Frames(type, ids) ==
  LET order == SetToSeq(ids) IN [k \in 1..Cardinality(ids) |-> [t |-> type, id |-> order[k]]]

SendSessionState ==
  /\ s.conn = "reconnecting" /\ ~s.stop
  /\ LET part == {m \in Muts : Wanted(m)} IN
     s' = [s EXCEPT !.conn = "open", !.mut = Dispatched(part),
                    !.up = Frames("sub", Live(s)) \o Frames("mut", part)]

(* The new socket fails while the state is being sent. *)
SendCut ==
  /\ s.conn = "reconnecting" /\ ~s.stop /\ Fault
  /\ \E part \in SUBSET {m \in Muts : Wanted(m)} :
       s' = [s EXCEPT !.mut = Dispatched(part), !.late = @ \cup part, !.faults = @ + 1]

Rejected ==
  /\ s.conn = "reconnecting" /\ ~s.stop /\ Trouble
  /\ s' = [Finish(s) EXCEPT !.trouble = @ + 1]

-----------------------------------------------------------------------------
(* process_commands, also while there is no socket. *)

Command == Head(s.cmds)
Took(t) == s.cmds # <<>> /\ s.conn # "closed" /\ Command.t = t
Rest == [s EXCEPT !.cmds = Tail(@)]

ProcessSubscribe ==
  /\ Took("sub")
  /\ s' = Up([Rest EXCEPT !.sub[Command.id] = NewSub], [t |-> "sub", id |-> Command.id])

ProcessUnsubscribe ==
  /\ Took("unsub")
  /\ LET i == Command.id st == Release(Rest, i) IN
     s' = IF s.sub[i].at = "live" THEN Up(Retire(st, i), [t |-> "unsub", id |-> i]) ELSE st

ProcessMutate ==
  /\ Took("mut")
  /\ LET m == Command.id IN
     s' = IF s.call[m] = "dropped" THEN Rest
          ELSE IF Cardinality({n \in Muts : s.mut[n] # "none"}) >= mix.pending
               THEN [Rest EXCEPT !.call[m] = "failed"]
          ELSE Up([Rest EXCEPT !.mut[m] = IF s.conn = "open" THEN "sent" ELSE "queued"],
                  [t |-> "mut", id |-> m])

(* The send fails: the mutation waits for the next connection. *)
ProcessMutateCut ==
  /\ Took("mut") /\ s.conn = "open" /\ Fault /\ s.call[Command.id] = "waiting"
  /\ s' = BeginReconnect([Rest EXCEPT !.mut[Command.id] = "queued", !.faults = @ + 1])

(* While reconnecting, and while one is pending, a refresh is refused. *)
ProcessRefresh ==
  /\ Took("auth")
  /\ s' = IF s.refresh.at = "pending" \/ s.conn # "open" THEN [Rest EXCEPT !.told = "failed"]
          ELSE Up([Rest EXCEPT !.refresh = [at |-> "pending", asked |-> TRUE]], [t |-> "auth", id |-> 0])

(* maybe_refresh_auth: one minute before the token expires *)
AutoRefresh ==
  /\ s.conn = "open" /\ mix.refresh /\ s.refresh.at = "none" /\ Trouble
  /\ s' = Up([s EXCEPT !.refresh = [at |-> "pending", asked |-> FALSE], !.trouble = @ + 1], [t |-> "auth", id |-> 0])

-----------------------------------------------------------------------------
(* handle_down: one frame of the server. *)

Frame == Head(s.down)
Got(t) == s.conn = "open" /\ s.down # <<>> /\ Frame.t = t
Read == [s EXCEPT !.down = Tail(@)]

SameCookie(i) == s.sub[i].cookie = Frame.v
HandleSnapshot ==
  /\ Got("snapshot")
  /\ LET i == Frame.id IN
     s' = IF s.sub[i].at = "none" THEN Read
          ELSE IF SameCookie(i) THEN [Release(Read, i) EXCEPT !.sub[i].replayed = TRUE]
          ELSE LET st == Emit([Release(Read, i) EXCEPT !.sub[i] =
                                 [at |-> "live", rows |-> Frame.v, cookie |-> Frame.v, due |-> FALSE, replayed |-> TRUE],
                                 !.last = Frame.v], i) IN
               IF st.sub[i].at = "none" THEN Up(st, [t |-> "unsub", id |-> i]) ELSE st

(* shardsChanged waits for its back-off, every other reason resends now. *)
Later(i) == Frame.reason = "shardsChanged"
BackoffNever(i) == FALSE
Backoff(i) == Later(i)
RefetchSubscription ==
  /\ Got("refetch")
  /\ LET i == Frame.id
         cleared == [Release(Read, i) EXCEPT !.sub[i].rows = 0, !.sub[i].cookie = 0, !.sub[i].due = Backoff(i)]
         st == Emit(cleared, i) IN
     s' = IF s.sub[i].at = "none" THEN Release(Read, i)
          ELSE IF st.sub[i].at = "none" THEN Up(st, [t |-> "unsub", id |-> i])
          ELSE IF Later(i) THEN st ELSE Up(st, [t |-> "sub", id |-> i])

HandleSubscriptionError ==
  /\ Got("error")
  /\ LET i == Frame.id st == Release(Read, i) IN
     s' = IF s.sub[i].at = "none" THEN st
          ELSE IF ~Frame.retry THEN Retire(st, i)
          ELSE LET cleared == [st EXCEPT !.sub[i].rows = 0, !.sub[i].cookie = 0, !.sub[i].due = TRUE] IN
               IF s.sub[i].due THEN cleared ELSE Emit(cleared, i)

SettleMutation ==
  /\ Got("result")
  /\ s' = IF s.mut[Frame.id] = "none" THEN Read
          ELSE Settle([Read EXCEPT !.last = s.v], Frame.id, IF Frame.ok THEN "ok" ELSE "refused")

SettleRefresh ==
  /\ Got("auth")
  /\ s' = [Read EXCEPT !.refresh = NoRefresh,
                       !.told = IF s.refresh.at = "pending" /\ s.refresh.asked THEN "ok" ELSE @]

-----------------------------------------------------------------------------
(* expire_work and the due refetches. *)

ExpireMutation(m) ==
  /\ s.conn # "closed" /\ s.mut[m] # "none"
  /\ s' = Settle(s, m, "unknown")

AfterWindowKeepsRows(sub) == [sub EXCEPT !.cookie = 0]
AfterWindow(sub) == [sub EXCEPT !.rows = 0, !.cookie = 0]
ExpireResume ==
  /\ s.conn # "closed" /\ s.window
  /\ s' = [s EXCEPT !.sub = [i \in Subs |-> IF i \in s.kept /\ s.sub[i].at = "live"
                                           THEN AfterWindow(s.sub[i]) ELSE s.sub[i]],
                    !.chan = [i \in Subs |-> IF i \in s.kept /\ s.sub[i].at = "live" /\ Deliverable(s, i)
                                             THEN @[i] + 1 ELSE @[i]],
                    !.last = IF s.last = s.resume THEN 0 ELSE @,
                    !.kept = {}, !.window = FALSE, !.resume = 0]

(* An unanswered refresh ends the session. *)
ExpireRefresh ==
  /\ s.conn # "closed" /\ s.refresh.at = "pending"
  /\ s' = Finish(s)

SendDueRefetch(i) ==
  /\ s.conn = "open" /\ s.sub[i].at = "live" /\ s.sub[i].due
  /\ s' = Up([s EXCEPT !.sub[i].due = FALSE], [t |-> "sub", id |-> i])

-----------------------------------------------------------------------------
(* The server. *)

Down(st, frame) == [st EXCEPT !.down = Append(@, frame)]
Asked(t) == s.up # <<>> /\ Head(s.up).t = t
Taken == [s EXCEPT !.up = Tail(@)]
Bothered == [Taken EXCEPT !.trouble = @ + 1]

ServeSubscribe ==
  /\ Asked("sub")
  /\ LET i == Head(s.up).id IN
     \/ s' = Down([Taken EXCEPT !.regs = @ \cup {i}, !.sent[i] = s.v], [t |-> "snapshot", id |-> i, v |-> s.v])
     \/ Trouble /\ \E reason \in {"shardsChanged", "lagged"} :
                     s' = Down([Bothered EXCEPT !.regs = @ \ {i}], [t |-> "refetch", id |-> i, reason |-> reason])
     \/ Trouble /\ \E retry \in BOOLEAN :
                     s' = Down([Bothered EXCEPT !.regs = @ \ {i}], [t |-> "error", id |-> i, retry |-> retry])

ServeUnsubscribe ==
  /\ Asked("unsub")
  /\ s' = [Taken EXCEPT !.regs = @ \ {Head(s.up).id}]

ServeMutate ==
  /\ Asked("mut")
  /\ LET m == Head(s.up).id IN
     \/ s' = Down([Taken EXCEPT !.applied = @ \cup {m}], [t |-> "result", id |-> m, ok |-> TRUE])
     \/ m \notin s.applied /\ Trouble /\ s' = Down(Bothered, [t |-> "result", id |-> m, ok |-> FALSE])

ServeAuth ==
  /\ Asked("auth")
  /\ s' = Down(Taken, [t |-> "auth", id |-> 0])

ServeLate(m) ==
  /\ m \in s.late
  /\ s' = [s EXCEPT !.late = @ \ {m}, !.applied = @ \cup {m}]

Commit == /\ s.v < mix.versions
          /\ s' = [s EXCEPT !.v = @ + 1]

(* A live update; a snapshot that was not acknowledged is sent again. *)
Push(i) ==
  /\ i \in s.regs /\ s.sent[i] < s.v
  /\ s' = Down([s EXCEPT !.sent[i] = s.v], [t |-> "snapshot", id |-> i, v |-> s.v])
PushAgain(i) ==
  /\ i \in s.regs /\ s.down = <<>> /\ Trouble
  /\ s' = Down([s EXCEPT !.trouble = @ + 1], [t |-> "snapshot", id |-> i, v |-> s.sent[i]])

Serve == ServeSubscribe \/ ServeUnsubscribe \/ ServeMutate \/ ServeAuth \/ (\E i \in Subs : Push(i))
Process == ProcessSubscribe \/ ProcessUnsubscribe \/ ProcessMutate \/ ProcessRefresh
HandleDown == HandleSnapshot \/ RefetchSubscription \/ HandleSubscriptionError \/ SettleMutation \/ SettleRefresh

Step ==
  \/ \E m \in Muts : BeginMutation(m) \/ GiveUp(m) \/ ExpireMutation(m) \/ ServeLate(m)
  \/ \E i \in Subs : Subscribe(i) \/ DropHandle(i) \/ Receive(i) \/ SendDueRefetch(i) \/ PushAgain(i)
  \/ RefreshAuth \/ Close \/ Stop \/ Disconnect \/ SendSessionState \/ SendCut \/ Rejected
  \/ Process \/ ProcessMutateCut \/ AutoRefresh \/ HandleDown \/ ExpireResume \/ ExpireRefresh
  \/ Serve \/ Commit

Next == On /\ Step /\ UNCHANGED mix
Spec == Init /\ [][Next]_vars
(* The thread's loop runs, the server answers, the consumer reads. *)
Fairness ==
  /\ WF_s(On /\ (Stop \/ SendSessionState \/ Process \/ HandleDown)) /\ WF_s(On /\ Serve)
  /\ \A m \in 1..2 : WF_s(On /\ m \in Muts /\ ExpireMutation(m))
  /\ \A i \in 1..2 : WF_s(On /\ i \in Subs /\ (Receive(i) \/ SendDueRefetch(i)))
  /\ WF_s(On /\ s.conn = "reconnecting" /\ ExpireResume) /\ WF_s(On /\ ExpireRefresh)
FairSpec == Spec /\ Fairness

-----------------------------------------------------------------------------
TypeOK ==
  /\ mix \in Mixes /\ s.conn \in {"open", "reconnecting", "closed"}
  /\ s.mut \in [Muts -> {"none", "queued", "sent"}] /\ s.kept \subseteq Subs
  /\ s.window <=> s.kept # {}
  /\ \A i \in Subs : s.chan[i] <= mix.cap

InFlight == {s.up[k].id : k \in {k \in 1..Len(s.up) : s.up[k].t = "mut"}} \cup s.late
(* A caller is told "failed", and not "outcome unknown", only of a         *)
(* mutation no frame of which ever left, and "ok" only of an applied one,  *)
(* across lost connections, partial sends, deadlines and close.            *)
OutcomeHonest ==
  \A m \in Muts : /\ s.call[m] = "failed" => m \notin s.applied \cup InFlight
                  /\ s.call[m] = "ok" => m \in s.applied

(* While the client is offline and the resume window is over, the only     *)
(* rows still shown are those replayed since the first disconnect.         *)
WindowBoundsRows ==
  (s.conn = "reconnecting" /\ ~s.window) =>
    \A i \in Live(s) : s.sub[i].rows # 0 => s.sub[i].replayed

(* Every mutation call ends with an outcome, every refresh too. *)
CallsEnd ==
  /\ \A m \in 1..2 : (On /\ m \in Muts /\ s.call[m] = "waiting") ~> (On /\ m \in Muts => s.call[m] # "waiting")
  /\ (On /\ s.told = "waiting") ~> (On => s.told # "waiting")

(* A subscription that is still open shows the last committed version in   *)
(* the end, whatever the server refused, retried or sent twice.            *)
ShowsTheLast ==
  \A i \in 1..2 : (On /\ i \in Subs /\ s.sub[i].at = "live")
                  ~> (On /\ i \in Subs => s.sub[i].at = "none" \/ (s.sub[i].rows = s.v))

(* What the client reports of a call, and shows of a query, is true. *)
Safe == TypeOK /\ OutcomeHonest /\ WindowBoundsRows

(* Whatever it takes on ends. *)
AllEnds == CallsEnd /\ ShowsTheLast
=============================================================================
