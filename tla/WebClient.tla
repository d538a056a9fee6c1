------------------------------ MODULE WebClient ------------------------------
(***************************************************************************)
(* The TypeScript client: one event loop, whose callbacks (the JWT read,   *)
(* the socket, the timers) may arrive after what they were made for is     *)
(* gone.  Every connection attempt and every token refresh has a number,   *)
(* and a late callback recognises itself by it.                            *)
(*                                                                         *)
(* A token is its number; tokens up to s.expired have expired.  Rows are   *)
(* the server's version, as in RustClient, and the server is the same.     *)
(***************************************************************************)
EXTENDS Naturals, Sequences, FiniteSets, SequencesExt

CONSTANT Mixes  \* bounds and faults: see MCResources

\* What the theorems need of a mix.
MixesOK == \A m \in Mixes : m.subs \in Nat /\ m.muts \in Nat

VARIABLES mix, s

vars == <<mix, s>>
On == mix.part = "web_client"

Subs == 1..mix.subs
Muts == 1..mix.muts
NoSub == [at |-> "none"]
NewSub == [at |-> "pending", rows |-> 0, cookie |-> 0, timer |-> FALSE, replayed |-> FALSE]
None == [at |-> "none"]

Init ==
  /\ mix \in Mixes
  /\ s = [state |-> "connecting", why |-> "none", attempt |-> 1, ws |-> 0, token |-> 0,
          reads |-> {[for |-> "connect", attempt |-> 1]}, reconnect |-> FALSE,
          gen |-> 0, timer |-> None, deadline |-> None, pending |-> None,
          issued |-> 1, expired |-> 0, refused |-> 0, opened |-> FALSE,
          sub |-> [i \in Subs |-> NoSub], handle |-> [i \in Subs |-> "idle"],
          mut |-> [m \in Muts |-> "none"], call |-> [m \in Muts |-> "idle"],
          last |-> 0, kept |-> {}, window |-> FALSE, resume |-> 0,
          up |-> <<>>, down |-> <<>>, regs |-> {}, sent |-> [i \in Subs |-> 0], v |-> 1, auth |-> 0,
          applied |-> {}, late |-> {}, faults |-> 0, trouble |-> 0]

Fault == s.faults < mix.faults
Trouble == s.trouble < mix.trouble
Terminated == s.state = "closed"
Open == s.state = "open"
Ends == {"none", "error", "closed"}
Live(st) == {i \in Subs : st.sub[i].at \notin Ends}
Send(st, frames) == [st EXCEPT !.up = @ \o frames]
Frames(type, ids) ==
  LET order == SetToSeq(ids) IN [k \in 1..Cardinality(ids) |-> [t |-> type, id |-> order[k]]]
Unread(st) == {st.up[k].id : k \in {k \in 1..Len(st.up) : st.up[k].t = "mut"}}

-----------------------------------------------------------------------------
(* The end of the session, and of one socket. *)

AbortedNever(call) == call
Aborted(call) == IF call = "waiting" THEN "aborted" ELSE call
(* In flight or not, a mutation is rejected with the code of the session. *)
FailSession(st, why) ==
  [st EXCEPT !.state = "closed", !.why = why, !.reconnect = FALSE, !.gen = @ + 1,
             !.timer = None, !.deadline = None, !.pending = None, !.kept = {}, !.window = FALSE, !.resume = 0,
             !.sub = [i \in Subs |-> NoSub], !.mut = [m \in Muts |-> "none"],
             !.call = [m \in Muts |-> Aborted(@[m])],
             !.ws = 0, !.up = <<>>, !.down = <<>>, !.regs = {}, !.late = @ \cup Unread(st)]

RevokeSocket(st) ==
  [st EXCEPT !.attempt = @ + 1, !.gen = @ + 1, !.timer = None, !.deadline = None, !.pending = None, !.ws = 0,
             !.up = <<>>, !.down = <<>>, !.regs = {}, !.late = @ \cup Unread(st)]

(* beginResumeExpiry: what is shown may stay for the resume window. *)
Retained(st) == {i \in Live(st) : st.sub[i].rows # 0 \/ st.sub[i].cookie # 0}
BeginResumeExpiry(st) ==
  IF st.last = 0 \/ st.window THEN st
  ELSE [st EXCEPT !.kept = Retained(st), !.window = Retained(st) # {},
                  !.resume = IF Retained(st) = {} THEN 0 ELSE st.last,
                  !.sub = [i \in Subs |-> IF st.sub[i].at = "none" THEN NoSub ELSE [st.sub[i] EXCEPT !.replayed = FALSE]]]

ScheduleReconnect(st) == [st EXCEPT !.state = "reconnecting", !.reconnect = TRUE]

Requeued(st) == [m \in Muts |-> IF st.mut[m] = "sent" THEN "queued" ELSE st.mut[m]]
OnClose(st) ==
  LET quiet == [st EXCEPT !.sub = [i \in Subs |-> IF st.sub[i].at = "none" THEN NoSub ELSE [st.sub[i] EXCEPT !.timer = FALSE]]] IN
  ScheduleReconnect([BeginResumeExpiry(quiet) EXCEPT !.mut = Requeued(st)])

Disconnect ==
  /\ s.ws # 0 /\ Fault
  /\ s' = [OnClose(RevokeSocket(s)) EXCEPT !.faults = @ + 1]

Close == /\ mix.close /\ ~Terminated
         /\ s' = FailSession(s, "close")

-----------------------------------------------------------------------------
(* Connecting: the timer, the JWT, the socket, the welcome. *)

StartConnect ==
  /\ s.reconnect /\ ~Terminated
  /\ s' = [s EXCEPT !.reconnect = FALSE, !.attempt = @ + 1, !.state = "connecting",
                    !.reads = @ \cup {[for |-> "connect", attempt |-> s.attempt + 1]}]

Connects(r) == r.for = "connect" /\ r \in s.reads
ReadDone(r) == [s EXCEPT !.reads = @ \ {r}]

Connect(r) ==
  /\ Connects(r)
  /\ s' = IF Terminated \/ r.attempt # s.attempt THEN ReadDone(r)
          ELSE [ReadDone(r) EXCEPT !.ws = r.attempt, !.token = s.issued, !.auth = 0,
                                   !.up = <<[t |-> "hello", id |-> s.issued]>>]

ConnectJwtFails(r) ==
  /\ Connects(r) /\ Trouble /\ ~Terminated /\ r.attempt = s.attempt
  /\ s' = [IF s.opened THEN ScheduleReconnect(ReadDone(r)) ELSE FailSession(ReadDone(r), "connect")
             EXCEPT !.trouble = @ + 1]

(* sendSessionState: all subscriptions, then the mutations not in flight *)
Queued == {m \in Muts : s.mut[m] = "queued"}
SendSessionState(st) ==
  LET quiet == [i \in Subs |-> IF i \in Live(st) THEN [st.sub[i] EXCEPT !.timer = FALSE] ELSE st.sub[i]] IN
  Send([st EXCEPT !.sub = quiet, !.mut = [m \in Muts |-> IF m \in Queued THEN "sent" ELSE @[m]]],
       Frames("sub", Live(st)) \o Frames("mut", Queued))

Frame == Head(s.down)
Got(t) == s.ws # 0 /\ ~Terminated /\ s.down # <<>> /\ Frame.t = t
Read == [s EXCEPT !.down = Tail(@)]
ScheduleAuthRefresh(st, claims) ==
  IF st.deadline.at # "none" THEN st
  ELSE [st EXCEPT !.timer = [at |-> "refresh", attempt |-> st.attempt, claims |-> claims]]

Welcome ==
  /\ Got("welcome") /\ s.state = "connecting"
  /\ s' = SendSessionState(ScheduleAuthRefresh([Read EXCEPT !.state = "open", !.opened = TRUE,
                             !.last = IF @ = 0 THEN Frame.v ELSE @], s.token))

-----------------------------------------------------------------------------
(* The refresh of the token: timer, JWT read, updateAuth, acknowledgement, *)
(* all of it before the deadline at which the current token expires.       *)

BeginAuthRefresh ==
  /\ s.timer.at = "refresh" /\ Open
  /\ LET gen == s.gen + 1 IN
     s' = [s EXCEPT !.timer = None, !.gen = gen,
                    !.deadline = [at |-> "set", gen |-> gen, attempt |-> s.attempt, claims |-> s.timer.claims],
                    !.reads = @ \cup {[for |-> "refresh", attempt |-> s.attempt, gen |-> gen, claims |-> s.timer.claims]}]

Refreshes(r) == r.for = "refresh" /\ r \in s.reads
CurrentAny(r) == ~Terminated /\ Open
Current(r) == ~Terminated /\ Open /\ r.gen = s.gen /\ r.attempt = s.attempt
RefreshAuth(r) ==
  /\ Refreshes(r)
  /\ s' = IF ~Current(r) THEN ReadDone(r)
          ELSE IF s.issued <= r.claims \/ s.issued <= s.expired THEN FailSession(ReadDone(r), "unextended")
          ELSE Send([ReadDone(r) EXCEPT !.pending = [at |-> "sent", gen |-> r.gen, claims |-> s.issued]],
                    <<[t |-> "auth", id |-> s.issued]>>)

(* A failed read is retried while the current token is valid. *)
RefreshReadFails(r) ==
  /\ Refreshes(r) /\ Trouble
  /\ s' = [IF ~Current(r) THEN ReadDone(r)
           ELSE IF r.claims <= s.expired THEN FailSession(ReadDone(r), "expired")
           ELSE [ReadDone(r) EXCEPT !.timer = [at |-> "retry", read |-> r]] EXCEPT !.trouble = @ + 1]

RetryRead ==
  /\ s.timer.at = "retry"
  /\ s' = [s EXCEPT !.timer = None, !.reads = @ \cup {s.timer.read}]

AuthChanged ==
  /\ Got("auth")
  /\ s' = IF s.pending.at = "none" THEN Read
          ELSE ScheduleAuthRefresh([Read EXCEPT !.pending = None, !.gen = @ + 1, !.deadline = None, !.token = s.pending.claims],
                                   s.pending.claims)

Deadline ==
  /\ s.deadline.at = "set" /\ s.deadline.claims <= s.expired
  /\ s' = FailSession(s, "expired")

SessionError ==
  /\ Got("fail")
  /\ s' = [FailSession(Read, "rejected") EXCEPT !.refused = Frame.id]

-----------------------------------------------------------------------------
(* Mutations. *)

Mutate(m) ==
  /\ ~Terminated /\ s.call[m] = "idle"
  /\ s' = IF Open THEN Send([s EXCEPT !.call[m] = "waiting", !.mut[m] = "sent"], <<[t |-> "mut", id |-> m]>>)
          ELSE [s EXCEPT !.call[m] = "waiting", !.mut[m] = "queued"]

TakenNever(m) == "queued"
Taken(m) == "none"
(* The socket throws: the mutation is taken back and its caller told. *)
MutateSendFails(m) ==
  /\ ~Terminated /\ s.call[m] = "idle" /\ Open /\ Fault
  /\ s' = [s EXCEPT !.call[m] = "unsent", !.mut[m] = Taken(m), !.faults = @ + 1]

MutationTimeout(m) ==
  /\ s.mut[m] # "none"
  /\ s' = [s EXCEPT !.mut[m] = "none", !.call[m] = "unknown"]

SettleMutation ==
  /\ Got("result")
  /\ s' = IF s.mut[Frame.id] = "none" THEN Read
          ELSE [Read EXCEPT !.mut[Frame.id] = "none", !.call[Frame.id] = IF Frame.ok THEN "ok" ELSE "refused",
                            !.last = s.v]

-----------------------------------------------------------------------------
(* Subscriptions. *)

Release(st, i) ==
  LET kept == st.kept \ {i} IN
  IF i \notin st.kept THEN st
  ELSE [st EXCEPT !.kept = kept, !.window = @ /\ kept # {}, !.resume = IF kept = {} THEN 0 ELSE @]

Subscribe(i) ==
  /\ ~Terminated /\ s.handle[i] = "idle"
  /\ LET st == [s EXCEPT !.handle[i] = "open", !.sub[i] = NewSub] IN
     s' = IF Open THEN Send(st, <<[t |-> "sub", id |-> i]>>) ELSE st

Unsubscribe(i) ==
  /\ mix.cancel /\ s.handle[i] = "open" /\ s.sub[i].at # "none"
  /\ LET st == [Release(s, i) EXCEPT !.handle[i] = "closed", !.sub[i] = NoSub] IN
     s' = IF Open THEN Send(st, <<[t |-> "unsub", id |-> i]>>) ELSE st

Snapshot ==
  /\ Got("snapshot")
  /\ LET i == Frame.id IN
     s' = IF i \notin Live(s) THEN Read
          ELSE IF s.sub[i].cookie = Frame.v THEN [Release(Read, i) EXCEPT !.sub[i].replayed = TRUE]
          ELSE Release([Read EXCEPT !.last = Frame.v, !.sub[i] =
                 [at |-> "live", rows |-> Frame.v, cookie |-> Frame.v, timer |-> FALSE, replayed |-> TRUE]], i)

Cleared(st, i, timer) == [Release(st, i) EXCEPT !.sub[i] = [s.sub[i] EXCEPT !.at = "refetching", !.rows = 0, !.cookie = 0, !.timer = timer]]
ResendNever(i) == FALSE
Resend(i) == ~s.sub[i].timer
(* mustRefetch: a change of shards is retried later, the rest at once. *)
MustRefetch ==
  /\ Got("refetch")
  /\ LET i == Frame.id IN
     s' = IF i \notin Live(s) THEN Read
          ELSE IF Frame.reason # "shardsChanged" THEN Send(Cleared(Read, i, FALSE), <<[t |-> "sub", id |-> i]>>)
          ELSE IF Resend(i) THEN Cleared(Read, i, TRUE) ELSE Read

ApplySubscriptionError ==
  /\ Got("error")
  /\ LET i == Frame.id IN
     s' = IF i \notin Live(s) THEN Read
          ELSE IF Frame.retry THEN Cleared(Read, i, TRUE)
          ELSE [Release(Read, i) EXCEPT !.sub[i] = [s.sub[i] EXCEPT !.at = "error", !.rows = 0, !.cookie = 0, !.timer = FALSE]]

SubscriptionRetry(i) ==
  /\ s.sub[i].at # "none" /\ s.sub[i].timer
  /\ LET st == [s EXCEPT !.sub[i].timer = FALSE] IN
     s' = IF Open /\ i \in Live(s) THEN Send(st, <<[t |-> "sub", id |-> i]>>) ELSE st

AfterWindowKeepsRows(sub) == [sub EXCEPT !.at = "refetching", !.cookie = 0]
AfterWindow(sub) == [sub EXCEPT !.at = "refetching", !.rows = 0, !.cookie = 0]
(* The cookie survives only if a subscription outside the window, or a     *)
(* later frame, vouches for it.                                            *)
ExpireRetainedResumeState ==
  /\ s.window
  /\ LET outside == \E i \in Live(s) \ s.kept : s.sub[i].at = "live" \/ s.sub[i].cookie # 0
         advanced == s.last # 0 /\ s.last # s.resume IN
     s' = [s EXCEPT !.last = IF advanced \/ outside THEN @ ELSE 0,
                    !.sub = [i \in Subs |-> IF i \in s.kept /\ i \in Live(s) THEN AfterWindow(s.sub[i]) ELSE s.sub[i]],
                    !.kept = {}, !.window = FALSE, !.resume = 0]

-----------------------------------------------------------------------------
(* The server and the clock. *)

Down(st, frame) == [st EXCEPT !.down = Append(@, frame)]
Asked(t) == s.up # <<>> /\ Head(s.up).t = t
Served == [s EXCEPT !.up = Tail(@)]
Bothered == [Served EXCEPT !.trouble = @ + 1]

(* The Gateway admits a token that is valid and, later, a longer one. *)
ServeAuth ==
  /\ s.up # <<>> /\ Head(s.up).t \in {"hello", "auth"}
  /\ LET token == Head(s.up).id
         reply == IF token <= s.expired \/ token <= s.auth THEN [t |-> "fail", id |-> token]
                  ELSE IF Head(s.up).t = "hello" THEN [t |-> "welcome", v |-> s.v] ELSE [t |-> "auth", id |-> 0] IN
     s' = [Down(Served, reply) EXCEPT !.auth = IF reply.t = "fail" THEN @ ELSE token]

ServeSubscribe ==
  /\ Asked("sub")
  /\ LET i == Head(s.up).id IN
     \/ s' = Down([Served EXCEPT !.regs = @ \cup {i}, !.sent[i] = s.v], [t |-> "snapshot", id |-> i, v |-> s.v])
     \/ Trouble /\ \E reason \in {"shardsChanged", "lagged"} :
                     s' = Down([Bothered EXCEPT !.regs = @ \ {i}], [t |-> "refetch", id |-> i, reason |-> reason])
     \/ Trouble /\ \E retry \in BOOLEAN :
                     s' = Down([Bothered EXCEPT !.regs = @ \ {i}], [t |-> "error", id |-> i, retry |-> retry])

ServeUnsubscribe ==
  /\ Asked("unsub")
  /\ s' = [Served EXCEPT !.regs = @ \ {Head(s.up).id}]

ServeMutate ==
  /\ Asked("mut")
  /\ LET m == Head(s.up).id IN
     \/ s' = Down([Served EXCEPT !.applied = @ \cup {m}], [t |-> "result", id |-> m, ok |-> TRUE])
     \/ m \notin s.applied /\ Trouble /\ s' = Down(Bothered, [t |-> "result", id |-> m, ok |-> FALSE])

ServeLate(m) ==
  /\ m \in s.late
  /\ s' = [s EXCEPT !.late = @ \ {m}, !.applied = @ \cup {m}]

Commit == /\ s.v < mix.versions
          /\ s' = [s EXCEPT !.v = @ + 1]

Push(i) ==
  /\ i \in s.regs /\ s.sent[i] < s.v
  /\ s' = Down([s EXCEPT !.sent[i] = s.v], [t |-> "snapshot", id |-> i, v |-> s.v])

Issue == /\ s.issued < mix.tokens
         /\ s' = [s EXCEPT !.issued = @ + 1]
(* Time passes: the provider has renewed before its last token ends. *)
Expire == /\ s.expired + 1 < s.issued
          /\ s' = [s EXCEPT !.expired = @ + 1]

Serve == ServeAuth \/ ServeSubscribe \/ ServeUnsubscribe \/ ServeMutate \/ (\E i \in Subs : Push(i))
HandleDown ==
  Welcome \/ AuthChanged \/ SessionError \/ SettleMutation \/ Snapshot \/ MustRefetch \/ ApplySubscriptionError
Jwt == \E r \in s.reads : Connect(r) \/ RefreshAuth(r)
Timers == StartConnect \/ RetryRead \/ (\E i \in Subs : SubscriptionRetry(i))

Step ==
  \/ \E m \in Muts : Mutate(m) \/ MutateSendFails(m) \/ MutationTimeout(m) \/ ServeLate(m)
  \/ \E i \in Subs : Subscribe(i) \/ Unsubscribe(i)
  \/ \E r \in s.reads : ConnectJwtFails(r) \/ RefreshReadFails(r)
  \/ Jwt \/ Timers \/ BeginAuthRefresh \/ Deadline \/ ExpireRetainedResumeState
  \/ Disconnect \/ Close \/ HandleDown \/ Serve \/ Commit \/ Issue \/ Expire

Next == On /\ Step /\ UNCHANGED mix
Spec == Init /\ [][Next]_vars
(* The event loop runs its callbacks and timers, the provider answers and  *)
(* the server serves.                                                      *)
Fairness ==
  /\ WF_s(On /\ Jwt) /\ WF_s(On /\ Timers) /\ WF_s(On /\ HandleDown) /\ WF_s(On /\ Serve)
  /\ \A m \in 1..2 : WF_s(On /\ m \in Muts /\ MutationTimeout(m))
FairSpec == Spec /\ Fairness

-----------------------------------------------------------------------------
TypeOK ==
  /\ mix \in Mixes /\ s.state \in {"connecting", "open", "reconnecting", "closed"}
  /\ s.ws \in {0, s.attempt} /\ s.mut \in [Muts -> {"none", "queued", "sent"}]
  /\ s.window <=> s.kept # {}

(* A mutation whose send failed was told so for good: no reconnect sends   *)
(* it after all; "ok" is told of an applied one only.                      *)
NotSentIsFinal ==
  \A m \in Muts : /\ s.call[m] = "unsent" => m \notin s.applied \cup s.late \cup Unread(s)
                  /\ s.call[m] = "ok" => m \in s.applied

(* While the client is offline and the resume window is over, the only     *)
(* rows still shown are those replayed since the first disconnect.         *)
WindowBoundsRows ==
  (s.ws = 0 /\ ~s.window) => \A i \in Live(s) : s.sub[i].rows # 0 => s.sub[i].replayed

(* A session ends for its authentication only when its token has expired   *)
(* or the provider had no longer one, never by a JWT read, a timer or an   *)
(* acknowledgement of an earlier socket or refresh.                        *)
EndsForCause ==
  /\ s.why = "rejected" => s.refused <= s.expired
  /\ s.why = "expired" => s.token <= s.expired

(* Every mutation call is settled. *)
MutationsEnd ==
  \A m \in 1..2 : (On /\ m \in Muts /\ s.call[m] = "waiting") ~> (On /\ m \in Muts => s.call[m] # "waiting")

(* A subscription that is not ended shows the last committed version.      *)
ShowsTheLast ==
  \A i \in 1..2 : (On /\ i \in Subs /\ i \in Live(s)) ~> (On /\ i \in Subs => i \notin Live(s) \/ s.sub[i].rows = s.v)

(* What the client reports of a call, shows of a query and ends a session for is true. *)
Safe == TypeOK /\ NotSentIsFinal /\ WindowBoundsRows /\ EndsForCause

(* Whatever it takes on ends. *)
AllEnds == MutationsEnd /\ ShowsTheLast
=============================================================================
