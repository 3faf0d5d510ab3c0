---------------------------- MODULE BrokerRecycle ----------------------------
(***************************************************************************)
(* The life of the privileged broker daemon (broker/takwerx_broker.py) and *)
(* of the calls its light client (broker/takwerx_brokerctl.py) sends it.   *)
(*                                                                         *)
(* Four kinds of process interleave:                                       *)
(*   - the callers, each of which connects, sends one request and waits,   *)
(*     unless it is suspended on the way;                                  *)
(*   - the daemon's main thread: bind, accept loop, close, drain, exit;    *)
(*   - one handler thread per accepted connection;                         *)
(*   - the recycle watcher thread, which once a day stops the accept loop. *)
(* systemd restarts the daemon whenever it has exited (Restart=always) and *)
(* an operator or the console may kill or stop it at any moment.           *)
(*                                                                         *)
(* A call is one connection: its identity stays with the handler thread    *)
(* that serves it, so that thr[k] is the daemon's side of call k.  Once    *)
(* both sides are done with it, the identity serves the next call.         *)
(***************************************************************************)
EXTENDS Integers, FiniteSets

CONSTANTS
    Calls,       \* the calls that may be under way at once, one connection each
    After,       \* RECYCLE_AFTER_SECS, in ticks of the daemon's clock
    Quiet,       \* RECYCLE_QUIET_SECS
    QuietMax,    \* RECYCLE_QUIET_MAX_SECS
    WaitMax,     \* connect attempts that fit in RESTART_WAIT_SECS
    Backlog,     \* the listen backlog (socketserver's request_queue_size)
    MaxKills,    \* bound on the kills and stops of one behaviour
    GraceDrains  \* does the one-second grace let the accept loop empty the backlog?

ASSUME CallsAssumption == IsFiniteSet(Calls)
ASSUME TimingAssumption == /\ After \in Nat /\ Quiet \in Nat \ {0}
                           /\ QuietMax \in Nat
ASSUME BoundsAssumption == /\ WaitMax \in Nat /\ Backlog \in Nat
                           /\ MaxKills \in Nat
ASSUME GraceAssumption == GraceDrains \in BOOLEAN

VARIABLES
    cli,       \* cli[k]: the caller's side of call k
    waited,    \* waited[k]: failed connect attempts of call k
    thr,       \* thr[k]: the connection of call k inside the daemon
    wire,      \* wire[k]: what has crossed that connection last
    inflight,  \* _INFLIGHT
    last,      \* _LAST_ACTIVITY, or Never
    watcher,   \* where _recycle_watch stands
    wnow,      \* its `now`
    wn,        \* its `n`
    proc,      \* where serve() stands, "down" between two processes
    sock,      \* the socket file
    loop,      \* the accept loop: selecting, or about to accept
    stopping,  \* srv.shutdown() was called
    up,        \* uptime of the process
    unit,      \* what systemd does with the unit: "live" or "stopped"
    kills,     \* kills and stops so far
    runs,      \* runs[k]: how often the command of call k was executed (a history)
    lost       \* history: <<k, stage>> of each connection that a recycle has cut

callerVars  == <<cli, waited>>
handlerVars == <<thr, wire, inflight, last>>
watchVars   == <<watcher, wnow, wn>>
mainVars    == <<proc, sock, loop, stopping>>
timeVars    == <<up>>
unitVars    == <<unit, kills>>
histVars    == <<runs, lost>>
vars == <<callerVars, handlerVars, watchVars, mainVars, timeVars, unitVars, histVars>>

Never == -1
MaxUp == After + QuietMax   \* uptime saturates here: the watcher tells no later time apart

\* "sending": connected, the request not yet whole on its way; "stalled": suspended while
\* the answer is due; "denied" is EACCES, "full" EAGAIN; "unreachable" a connect given up;
\* "refused" the rulebook's answer; "error" a failure or an answer that never came whole.
CallerStates  == {"idle", "connecting", "checking", "sending", "waiting", "stalled", "ok",
                  "refused", "unreachable", "denied", "full", "error"}
Settled       == {"ok", "refused", "unreachable", "denied", "full", "error"}
\* "closed": the whole response can be read; "reset": end of file without one.
ThreadStates  == {"none", "queued", "accepted", "counted", "replying", "answered",
                  "closed", "reset"}
CountedStates == {"counted", "replying", "answered"}
CutStates     == {"queued", "accepted", "counted", "replying"}
Messages      == {"empty", "request", "result", "failure", "denial"}

Queued  == {k \in Calls : thr[k] = "queued"}
Counted == {k \in Calls : thr[k] \in CountedStates}

-----------------------------------------------------------------------------
Init ==
    /\ cli = [k \in Calls |-> "idle"] /\ waited = [k \in Calls |-> 0]
    /\ thr = [k \in Calls |-> "none"] /\ wire = [k \in Calls |-> "empty"]
    /\ inflight = 0 /\ last = Never
    /\ watcher = "off" /\ wnow = 0 /\ wn = 0
    /\ proc = "down" /\ sock = "absent" /\ loop = "select" /\ stopping = FALSE
    /\ up = 0 /\ unit = "live" /\ kills = 0
    /\ runs = [k \in Calls |-> 0] /\ lost = {}

(***************************************************************************)
(* The callers: takwerx_brokerctl.client_send and connect.                 *)
(***************************************************************************)
Call(k) ==
    /\ cli[k] = "idle"
    /\ cli' = [cli EXCEPT ![k] = "connecting"]
    /\ UNCHANGED <<waited, handlerVars, watchVars, mainVars, timeVars, unitVars, histVars>>

\* The next call: it takes over the identity of one that both sides are done with.
Renew(k) ==
    /\ cli[k] \in Settled /\ thr[k] \in {"none", "closed", "reset"}
    /\ cli' = [cli EXCEPT ![k] = "idle"] /\ waited' = [waited EXCEPT ![k] = 0]
    /\ thr' = [thr EXCEPT ![k] = "none"] /\ wire' = [wire EXCEPT ![k] = "empty"]
    /\ runs' = [runs EXCEPT ![k] = 0]
    /\ lost' = {l \in lost : l[1] # k}
    /\ UNCHANGED <<inflight, last, watchVars, mainVars, timeVars, unitVars>>

ConnectOk(k) ==
    /\ cli[k] = "connecting" /\ sock = "open"
    /\ Cardinality(Queued) <= Backlog
    /\ cli' = [cli EXCEPT ![k] = "sending"]
    /\ thr' = [thr EXCEPT ![k] = "queued"]
    /\ UNCHANGED <<waited, wire, inflight, last, watchVars, mainVars, timeVars, unitVars, histVars>>

\* A non-blocking connect to a full backlog is EAGAIN, which connect() re-raises.
ConnectFull(k) ==
    /\ cli[k] = "connecting" /\ sock = "open"
    /\ Cardinality(Queued) > Backlog
    /\ cli' = [cli EXCEPT ![k] = "full"]
    /\ UNCHANGED <<waited, handlerVars, watchVars, mainVars, timeVars, unitVars, histVars>>

\* Bound, but not yet chowned to the console's group: EACCES, re-raised as well.
ConnectDenied(k) ==
    /\ cli[k] = "connecting" /\ sock = "bound"
    /\ cli' = [cli EXCEPT ![k] = "denied"]
    /\ UNCHANGED <<waited, handlerVars, watchVars, mainVars, timeVars, unitVars, histVars>>

\* ENOENT or ECONNREFUSED: the only two failures that are retried.
ConnectRefused(k) ==
    /\ cli[k] = "connecting" /\ sock \in {"absent", "stale"}
    /\ cli' = [cli EXCEPT ![k] = "checking"]
    /\ UNCHANGED <<waited, handlerVars, watchVars, mainVars, timeVars, unitVars, histVars>>

Retry_Unbounded(k) ==   \* mutant: the attempts are not counted against RESTART_WAIT_SECS
    /\ cli[k] = "checking" /\ unit = "live"
    /\ cli' = [cli EXCEPT ![k] = "connecting"]
    /\ waited' = [waited EXCEPT ![k] = @ + 1]
    /\ UNCHANGED <<handlerVars, watchVars, mainVars, timeVars, unitVars, histVars>>

Retry_Forever(k) ==   \* mutant: neither a limit nor a look at the unit's state
    /\ cli[k] = "checking"
    /\ cli' = [cli EXCEPT ![k] = "connecting"]
    /\ UNCHANGED <<waited, handlerVars, watchVars, mainVars, timeVars, unitVars, histVars>>

Retry(k) ==
    /\ cli[k] = "checking" /\ waited[k] < WaitMax /\ unit = "live"
    /\ cli' = [cli EXCEPT ![k] = "connecting"]
    /\ waited' = [waited EXCEPT ![k] = @ + 1]
    /\ UNCHANGED <<handlerVars, watchVars, mainVars, timeVars, unitVars, histVars>>

GiveUp(k) ==
    /\ cli[k] = "checking" /\ (waited[k] >= WaitMax \/ unit = "stopped")
    /\ cli' = [cli EXCEPT ![k] = "unreachable"]
    /\ UNCHANGED <<waited, handlerVars, watchVars, mainVars, timeVars, unitVars, histVars>>

\* sendall and shutdown(SHUT_WR).  A daemon that has closed its end makes sendall fail.
Send(k) ==
    /\ cli[k] = "sending"
    /\ IF thr[k] \in {"closed", "reset"}
         THEN cli' = [cli EXCEPT ![k] = "error"] /\ UNCHANGED wire
         ELSE /\ cli' = [cli EXCEPT ![k] = "waiting"]
              /\ wire' = [wire EXCEPT ![k] = IF @ = "empty" THEN "request" ELSE @]
    /\ UNCHANGED <<waited, thr, inflight, last, watchVars, mainVars, timeVars, unitVars, histVars>>

\* The caller is suspended and does not read, or it goes on.
Stall(k) ==
    /\ \/ cli[k] = "waiting" /\ cli' = [cli EXCEPT ![k] = "stalled"]
       \/ cli[k] = "stalled" /\ cli' = [cli EXCEPT ![k] = "waiting"]
    /\ UNCHANGED <<waited, handlerVars, watchVars, mainVars, timeVars, unitVars, histVars>>

ReadAnswer_AtEof(k) ==   \* mutant: an end of file passes for an answer
    /\ cli[k] = "waiting" /\ thr[k] \in {"closed", "reset"}
    /\ cli' = [cli EXCEPT ![k] = "ok"]
    /\ UNCHANGED <<waited, handlerVars, watchVars, mainVars, timeVars, unitVars, histVars>>

\* What the answer says: {'ok': True}, code DENIED, or code TIMEOUT or ERROR.
Read(message) == CASE message = "result" -> "ok"
                   [] message = "denial" -> "refused"
                   [] OTHER              -> "error"

ReadAnswer(k) ==
    /\ cli[k] = "waiting" /\ thr[k] = "closed"
    /\ cli' = [cli EXCEPT ![k] = Read(wire[k])]
    /\ UNCHANGED <<waited, handlerVars, watchVars, mainVars, timeVars, unitVars, histVars>>

ReadReset_Resends(k) ==   \* mutant: the request is sent a second time
    /\ cli[k] = "waiting" /\ thr[k] = "reset"
    /\ cli' = [cli EXCEPT ![k] = "connecting"] /\ wire' = [wire EXCEPT ![k] = "empty"]
    /\ UNCHANGED <<waited, thr, inflight, last, watchVars, mainVars, timeVars, unitVars, histVars>>

\* End of file or ECONNRESET: exit 125, no second attempt.
ReadReset(k) ==
    /\ cli[k] = "waiting" /\ thr[k] = "reset"
    /\ cli' = [cli EXCEPT ![k] = "error"]
    /\ UNCHANGED <<waited, handlerVars, watchVars, mainVars, timeVars, unitVars, histVars>>

\* The socket timeout of a send or a read, a minute past the daemon's own: exit 125 too.
\* A caller that is killed closes its connection in the same way.
ReadTimeout(k) ==
    /\ cli[k] \in {"sending", "waiting", "stalled"}
    /\ cli' = [cli EXCEPT ![k] = "error"]
    /\ UNCHANGED <<waited, handlerVars, watchVars, mainVars, timeVars, unitVars, histVars>>

Caller(k) ==
    \/ ConnectOk(k) \/ ConnectFull(k) \/ ConnectDenied(k) \/ ConnectRefused(k)
    \/ Retry(k) \/ GiveUp(k) \/ ReadAnswer(k) \/ ReadReset(k)

(***************************************************************************)
(* The handler threads: _Handler.handle around _handle.  Between Count and *)
(* the next step the thread is in _recv_all, which has no timeout.         *)
(***************************************************************************)
Count(k) ==
    /\ thr[k] = "accepted"
    /\ thr' = [thr EXCEPT ![k] = "counted"]
    /\ inflight' = inflight + 1
    /\ last' = up
    /\ UNCHANGED <<callerVars, wire, watchVars, mainVars, timeVars, unitVars, histVars>>

\* A whole request that is let through: it runs, and gives a result or a failure.
Execute(k) ==
    /\ thr[k] = "counted" /\ wire[k] = "request"
    /\ thr' = [thr EXCEPT ![k] = "replying"]
    /\ runs' = [runs EXCEPT ![k] = @ + 1]
    /\ \E m \in {"result", "failure"} : wire' = [wire EXCEPT ![k] = m]
    /\ UNCHANGED <<callerVars, inflight, last, watchVars, mainVars, timeVars, unitVars, lost>>

\* A peer that may not ask, before anything is read, or a request that the rulebook denies,
\* that is too long or that names no operation.
Refuse(k) ==
    /\ thr[k] = "counted"
    /\ thr' = [thr EXCEPT ![k] = "replying"] /\ wire' = [wire EXCEPT ![k] = "denial"]
    /\ UNCHANGED <<callerVars, inflight, last, watchVars, mainVars, timeVars, unitVars, histVars>>

\* The caller closed its end before the request was whole: json.loads fails.
Garbled(k) ==
    /\ thr[k] = "counted" /\ wire[k] = "empty" /\ cli[k] = "error"
    /\ thr' = [thr EXCEPT ![k] = "replying"] /\ wire' = [wire EXCEPT ![k] = "failure"]
    /\ UNCHANGED <<callerVars, inflight, last, watchVars, mainVars, timeVars, unitVars, histVars>>

Answer(k) ==
    /\ thr[k] = "replying"
    /\ thr' = [thr EXCEPT ![k] = "answered"]
    /\ UNCHANGED <<callerVars, wire, inflight, last, watchVars, mainVars, timeVars, unitVars, histVars>>

Uncount_Leaks(k) ==   \* mutant: a handler that ends without the second _inflight_add
    /\ thr[k] = "answered"
    /\ thr' = [thr EXCEPT ![k] = "closed"]
    /\ last' = up
    /\ UNCHANGED <<callerVars, wire, inflight, watchVars, mainVars, timeVars, unitVars, histVars>>

\* The `finally` of handle(); socketserver then closes the connection.
Uncount(k) ==
    /\ thr[k] = "answered"
    /\ thr' = [thr EXCEPT ![k] = "closed"]
    /\ inflight' = inflight - 1
    /\ last' = up
    /\ UNCHANGED <<callerVars, wire, watchVars, mainVars, timeVars, unitVars, histVars>>

Handler(k) == Count(k) \/ Execute(k) \/ Refuse(k) \/ Garbled(k) \/ Answer(k) \/ Uncount(k)

(***************************************************************************)
(* The recycle watcher: _recycle_watch.  Its three reads are three steps.  *)
(***************************************************************************)
WatchPoll ==
    /\ watcher = "poll" /\ up >= After
    /\ watcher' = "readN" /\ wnow' = up
    /\ UNCHANGED <<wn, callerVars, handlerVars, mainVars, timeVars, unitVars, histVars>>

WatchReadN ==
    /\ watcher = "readN"
    /\ watcher' = "readLast" /\ wn' = inflight
    /\ UNCHANGED <<wnow, callerVars, handlerVars, mainVars, timeVars, unitVars, histVars>>

MayRecycle_CountOnly == wn = 0   \* mutant: the decision looks at the counter alone


\* _last_activity() and the decision that follows it.
MayRecycle == /\ wn = 0
              /\ \/ last = Never
                 \/ wnow - last >= Quiet
                 \/ wnow - After >= QuietMax

\* The iteration's locals are dead after it, so they are forgotten.
WatchDecide ==
    /\ watcher = "readLast"
    /\ watcher' = IF MayRecycle THEN "unlink" ELSE "poll"
    /\ wnow' = 0 /\ wn' = 0
    /\ UNCHANGED <<callerVars, handlerVars, mainVars, timeVars, unitVars, histVars>>

WatchUnlink_KeepsSocket ==   \* mutant: shutdown without unlinking the socket
    /\ watcher = "unlink"
    /\ watcher' = "grace"
    /\ UNCHANGED <<wnow, wn, callerVars, handlerVars, mainVars, timeVars, unitVars, histVars>>

WatchUnlink ==
    /\ watcher = "unlink"
    /\ watcher' = "grace" /\ sock' = "absent"
    /\ UNCHANGED <<wnow, wn, callerVars, handlerVars, proc, loop, stopping, timeVars,
                   unitVars, histVars>>

WatchShutdown ==
    /\ watcher = "grace"
    /\ GraceDrains => Queued = {} /\ loop = "select"
    /\ watcher' = "done" /\ stopping' = TRUE
    /\ UNCHANGED <<wnow, wn, callerVars, handlerVars, proc, sock, loop, timeVars,
                   unitVars, histVars>>

Watcher == WatchPoll \/ WatchReadN \/ WatchDecide \/ WatchUnlink \/ WatchShutdown

(***************************************************************************)
(* The main thread: serve() and socketserver's accept loop.                *)
(***************************************************************************)
Bind ==
    /\ proc = "down" /\ unit = "live"
    /\ proc' = "starting" /\ sock' = "bound"
    /\ UNCHANGED <<loop, stopping>>
    /\ UNCHANGED <<callerVars, handlerVars, watchVars, timeVars, unitVars, histVars>>

\* chown and chmod of the socket, and the start of the watcher thread.
Open ==
    /\ proc = "starting"
    /\ proc' = "serving" /\ sock' = "open"
    /\ watcher' = "poll" /\ wnow' = 0 /\ wn' = 0
    /\ UNCHANGED <<callerVars, handlerVars, loop, stopping, timeVars, unitVars, histVars>>

LoopReady ==
    /\ proc = "serving" /\ loop = "select" /\ ~stopping /\ Queued # {}
    /\ loop' = "accept"
    /\ UNCHANGED <<callerVars, handlerVars, watchVars, proc, sock, stopping, timeVars,
                   unitVars, histVars>>

Accept(k) ==
    /\ proc = "serving" /\ loop = "accept" /\ thr[k] = "queued"
    /\ loop' = "select"
    /\ thr' = [thr EXCEPT ![k] = "accepted"]
    /\ UNCHANGED <<callerVars, wire, inflight, last, watchVars, proc, sock, stopping, timeVars,
                   unitVars, histVars>>

\* serve_forever returns; the `finally` unlinks and closes the listening socket.
CloseServer ==
    /\ proc = "serving" /\ loop = "select" /\ stopping
    /\ proc' = "draining" /\ sock' = "absent"
    /\ thr' = [k \in Calls |-> IF thr[k] = "queued" THEN "reset" ELSE thr[k]]
    /\ lost' = lost \cup {<<k, "queued">> : k \in Queued}
    /\ UNCHANGED <<callerVars, wire, inflight, last, watchVars, loop, stopping, timeVars,
                   unitVars, runs>>

\* The process ends: its memory and every thread with it, and the kernel closes every
\* connection.
Die ==
    /\ proc' = "down" /\ loop' = "select" /\ stopping' = FALSE
    /\ watcher' = "off" /\ wnow' = 0 /\ wn' = 0
    /\ inflight' = 0 /\ last' = Never /\ up' = 0
    /\ thr' = [k \in Calls |-> IF thr[k] \in CutStates THEN "reset"
                               ELSE IF thr[k] = "answered" THEN "closed" ELSE thr[k]]
    /\ UNCHANGED <<callerVars, wire, runs>>

\* _drain() saw no request in flight, and serve() returns 0.
Drained ==
    /\ proc = "draining" /\ inflight = 0
    /\ Die
    /\ lost' = lost \cup {<<k, thr[k]>> : k \in {c \in Calls : thr[c] \in CutStates}}
    /\ UNCHANGED <<sock, unitVars>>

\* RECYCLE_DRAIN_MAX_SECS are over: "exiting anyway".
DrainDeadline ==
    /\ proc = "draining" /\ inflight > 0
    /\ Die
    /\ UNCHANGED <<sock, unitVars, lost>>

\* SIGTERM or a crash: no handler runs, so a socket file stays behind.
Kill ==
    /\ proc # "down" /\ kills < MaxKills
    /\ Die
    /\ sock' = IF sock = "absent" THEN "absent" ELSE "stale"
    /\ kills' = kills + 1
    /\ unit' \in {"live", "stopped"}
    /\ UNCHANGED lost

StartUnit ==
    /\ unit = "stopped"
    /\ unit' = "live"
    /\ UNCHANGED <<callerVars, handlerVars, watchVars, mainVars, timeVars, kills, histVars>>

Tick ==
    /\ proc = "serving" /\ up < MaxUp
    /\ up' = up + 1
    /\ UNCHANGED <<callerVars, handlerVars, watchVars, mainVars, unitVars, histVars>>

Main == \/ Bind \/ Open \/ LoopReady \/ (\E k \in Calls : Accept(k))
        \/ CloseServer \/ Drained

Next ==
    \/ \E k \in Calls : Call(k) \/ Renew(k) \/ Caller(k) \/ Send(k) \/ Stall(k) \/ ReadTimeout(k)
    \/ \E k \in Calls : Handler(k)
    \/ Watcher \/ Main
    \/ DrainDeadline \/ Kill \/ StartUnit \/ Tick

Spec == Init /\ [][Next]_vars

\* Every thread the operating system runs makes progress, and the clock moves on, the
\* drain's included.  A handler need not get past a read from a caller that does not send, nor
\* past a write to one that does not read.  Nothing obliges anyone to call, to send what was
\* begun, to start a stopped unit or to time a call out.
HandlerRuns(k) == \/ Count(k) \/ Execute(k) \/ Refuse(k) \/ Garbled(k) \/ Uncount(k)
                  \/ cli[k] # "stalled" /\ Answer(k)

Fairness ==
    /\ \A k \in Calls : WF_vars(Caller(k)) /\ WF_vars(HandlerRuns(k))
    /\ WF_vars(Watcher) /\ WF_vars(Main) /\ WF_vars(DrainDeadline) /\ WF_vars(Tick)

FairSpec == Spec /\ Fairness
-----------------------------------------------------------------------------
CallsOK ==
    /\ cli \in [Calls -> CallerStates] /\ waited \in [Calls -> 0..WaitMax]
    /\ thr \in [Calls -> ThreadStates] /\ wire \in [Calls -> Messages] /\ runs \in [Calls -> Nat]
    /\ lost \subseteq Calls \X CutStates

DaemonOK ==
    /\ inflight \in Int /\ last \in {Never} \cup 0..MaxUp
    /\ watcher \in {"off", "poll", "readN", "readLast", "unlink", "grace", "done"}
    /\ wnow \in 0..MaxUp /\ wn \in Int /\ up \in 0..MaxUp
    /\ proc \in {"down", "starting", "serving", "draining"}
    /\ sock \in {"absent", "bound", "open", "stale"} /\ loop \in {"select", "accept"}
    /\ unit \in {"live", "stopped"} /\ kills \in 0..MaxKills

TypeOK == CallsOK /\ DaemonOK /\ stopping \in BOOLEAN

\* The counter the recycle decides and drains by is the number of handler threads
\* between the two _inflight_add calls, whatever was cut or restarted in between.
CountExact == proc # "down" => inflight = Cardinality(Counted)

\* Whatever is killed, restarted, retried or timed out, a command is executed at most
\* once; a call reported done was executed, and one that reports it never connected, or that
\* it was refused, was not, so "retrying the CONNECT cannot run a command twice".
OutcomeExact ==
    \A k \in Calls : /\ runs[k] <= 1
                     /\ cli[k] = "ok" => runs[k] = 1
                     /\ cli[k] \in {"refused", "unreachable", "denied", "full"} => runs[k] = 0

\* The recycle never cuts a request it has counted, nor one whose connection still
\* waits to be accepted: only the drain deadline and a kill do that.
RecycleCutsNothing ==
    \A k \in Calls : \A s \in CountedStates \cup {"queued"} :
        <<k, s>> \notin lost

\* The decision to recycle rests on three reads made at three moments.  Still, before
\* QuietMax has passed it never falls while a request is in flight, nor within Quiet
\* of one.
DecidesWhenQuiet ==
    [][watcher = "readLast" /\ watcher' = "unlink"
       => \/ up - After >= QuietMax
          \/ inflight = 0 /\ (last = Never \/ up - last >= Quiet)]_vars

\* A call that was made gets an answer or an error without its socket timeout, through
\* any recycle, kill or stop of the daemon, unless the caller itself stops on the way.
CallsSettle ==
    \A k \in Calls : cli[k] \in {"connecting", "checking", "waiting"}
                       ~> cli[k] \in Settled \cup {"sending", "stalled"}


\* Claimed by the note on RECYCLE_QUIET_MAX_SECS: the recycle "still goes at the next idle
\* moment instead of never".
RecyclesAtLast == <>[](unit = "live") => []<>(proc = "down")

\* Claimed by _recycle_watch: "the in-flight count can only fall after this decides".
InflightOnlyFalls ==
    [][inflight' > inflight => watcher \notin {"unlink", "grace", "done"}]_vars

\* Claimed by _recycle_watch: "requests already accepted keep running, and serve()
\* waits for them before it exits".
AcceptedAreWaitedFor == \A k \in Calls : <<k, "accepted">> \notin lost

\* Claimed by tests/test_broker_restart_gap.py: every client "waits for a broker systemd
\* still has up or coming back, instead of falling back".
CallersOutwaitRestart == \A k \in Calls : cli[k] \notin {"denied", "full"}

\* What a caller can tell of its call.
Outcome(k) == IF cli[k] \in {"connecting", "checking", "sending", "waiting", "stalled"} THEN "asking"
              ELSE IF cli[k] \in {"unreachable", "denied", "full"} THEN "unsent" ELSE cli[k]

RC == INSTANCE RemoteCall WITH outcome <- [k \in Calls |-> Outcome(k)]

\* To its callers the daemon, restarts and all, is an at-most-once remote call.
ImplementsRemoteCall == RC!Spec
=============================================================================
