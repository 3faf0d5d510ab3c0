------------------------- MODULE BrokerRecycleProofs -------------------------
(***************************************************************************)
(* BrokerRecycle for every number of calls, every timing and any number of *)
(* kills: type correctness, at-most-once execution and its refinement to   *)
(* RemoteCall, exactness of the in-flight counter, and the two safety      *)
(* properties of the daily recycle.                                        *)
(***************************************************************************)
EXTENDS BrokerRecycle, FiniteSetTheorems, TLAPS

USE CallsAssumption, TimingAssumption, BoundsAssumption, GraceAssumption
    DEF CallsAssumption, TimingAssumption, BoundsAssumption, GraceAssumption, Never, MaxUp

\* The steps of a caller.
CallerSide(k) == Call(k) \/ Renew(k) \/ Caller(k) \/ Send(k) \/ Stall(k) \/ ReadTimeout(k)

(***************************************************************************)
(* Types.                                                                  *)
(***************************************************************************)
LEMMA CallsStep == TypeOK /\ [Next]_vars => CallsOK'
<1> SUFFICES ASSUME CallsOK, DaemonOK, [Next]_vars PROVE CallsOK'
    BY DEF TypeOK
<1> USE DEF CallsOK, CallerStates, ThreadStates, Messages, callerVars, histVars
<1>1. ASSUME NEW k \in Calls, CallerSide(k) PROVE CallsOK'
    <2>1. CASE Call(k) \/ ConnectOk(k) \/ ConnectFull(k) \/ ConnectDenied(k) \/ ConnectRefused(k)
        BY <2>1 DEF Call, ConnectOk, ConnectFull, ConnectDenied, ConnectRefused, handlerVars
    <2>2. CASE Retry(k)
        BY <2>2 DEF Retry, handlerVars
    <2>3. CASE GiveUp(k) \/ ReadAnswer(k) \/ ReadReset(k) \/ ReadTimeout(k)
        BY <2>3 DEF GiveUp, ReadAnswer, Read, ReadReset, ReadTimeout, handlerVars
    <2>4. CASE Renew(k) \/ Send(k) \/ Stall(k)
        BY <2>4 DEF Renew, Send, Stall, handlerVars
    <2>5. QED
        BY <1>1, <2>1, <2>2, <2>3, <2>4 DEF CallerSide, Caller
<1>2. ASSUME NEW k \in Calls, Handler(k) \/ Accept(k) PROVE CallsOK'
    BY <1>2 DEF Handler, Count, Execute, Refuse, Garbled, Answer, Uncount, Accept
<1>3. CASE Watcher \/ Bind \/ Open \/ LoopReady \/ StartUnit \/ Tick \/ UNCHANGED vars
    BY <1>3 DEF Watcher, WatchPoll, WatchReadN, WatchDecide, WatchUnlink, WatchShutdown,
       Bind, Open, LoopReady, StartUnit, Tick, vars, handlerVars
<1>4. CASE CloseServer
    BY <1>4 DEF CloseServer, Queued, CutStates
<1>5. CASE Drained \/ DrainDeadline \/ Kill
    BY <1>5 DEF Drained, DrainDeadline, Kill, Die, CutStates
<1>6. QED
    BY <1>1, <1>2, <1>3, <1>4, <1>5 DEF Next, CallerSide, Main

LEMMA DaemonStep == TypeOK /\ [Next]_vars => DaemonOK'
<1> SUFFICES ASSUME CallsOK, DaemonOK, [Next]_vars PROVE DaemonOK'
    BY DEF TypeOK
<1> USE DEF DaemonOK, handlerVars, watchVars, mainVars, timeVars, unitVars
<1>1. ASSUME NEW k \in Calls, CallerSide(k) PROVE DaemonOK'
    BY <1>1 DEF CallerSide, Call, Renew, Send, Stall, Caller, ConnectOk, ConnectFull,
       ConnectDenied, ConnectRefused, Retry, GiveUp, ReadAnswer, ReadReset, ReadTimeout
<1>2. ASSUME NEW k \in Calls, Handler(k) \/ Accept(k) PROVE DaemonOK'
    BY <1>2 DEF Handler, Count, Execute, Refuse, Garbled, Answer, Uncount, Accept
<1>3. CASE Watcher
    <2>1. CASE WatchPoll
        BY <2>1 DEF WatchPoll
    <2>2. CASE WatchReadN
        BY <2>2 DEF WatchReadN
    <2>3. CASE WatchDecide
        BY <2>3 DEF WatchDecide
    <2>4. CASE WatchUnlink
        BY <2>4 DEF WatchUnlink
    <2>5. CASE WatchShutdown
        BY <2>5 DEF WatchShutdown
    <2>6. QED
        BY <1>3, <2>1, <2>2, <2>3, <2>4, <2>5 DEF Watcher
<1>4. CASE Bind
    BY <1>4 DEF Bind
<1>5. CASE Open \/ LoopReady \/ CloseServer
    BY <1>5 DEF Open, LoopReady, CloseServer
<1>6. CASE Drained \/ DrainDeadline \/ Kill
    BY <1>6 DEF Drained, DrainDeadline, Kill, Die
<1>7. CASE StartUnit \/ Tick \/ UNCHANGED vars
    BY <1>7 DEF StartUnit, Tick, vars
<1>8. QED
    BY <1>1, <1>2, <1>3, <1>4, <1>5, <1>6, <1>7 DEF Next, CallerSide, Main

LEMMA FlagStep == stopping \in BOOLEAN /\ [Next]_vars => (stopping \in BOOLEAN)'
BY Zenon DEF Next, Call, Renew, Send, Stall, Caller, ConnectOk, ConnectFull, ConnectDenied,
   ConnectRefused, Retry, GiveUp, ReadAnswer, ReadReset, ReadTimeout, Handler, Count, Execute,
   Refuse, Garbled, Answer, Uncount, Watcher, WatchPoll, WatchReadN, WatchDecide, WatchUnlink,
   WatchShutdown, Main, Bind, Open, LoopReady, Accept, CloseServer, Drained, DrainDeadline,
   Kill, Die, StartUnit, Tick, mainVars, vars

\* The variables of the daemon and its callers keep their types in every behaviour.
THEOREM TypeCorrect == Spec => []TypeOK
<1>1. Init => CallsOK
    BY DEF Init, CallsOK, CallerStates, ThreadStates, Messages
<1>2. Init => DaemonOK
    BY DEF Init, DaemonOK
<1>3. Init => stopping \in BOOLEAN
    BY Zenon DEF Init
<1>4. TypeOK /\ [Next]_vars => TypeOK'
    BY CallsStep, DaemonStep, FlagStep DEF TypeOK
<1>5. QED
    BY <1>1, <1>2, <1>3, <1>4, PTL DEF Spec, TypeOK

(***************************************************************************)
(* At-most-once execution.  A connection exists only for a call that got   *)
(* through, and its stage says whether the command ran.                    *)
(***************************************************************************)
StageTells(k) ==
    /\ cli[k] \in {"idle", "connecting", "checking", "unreachable", "denied", "full"}
         => thr[k] = "none"
    /\ cli[k] \in {"sending", "waiting", "stalled"} => thr[k] # "none"
    /\ cli[k] = "ok" => thr[k] = "closed" /\ wire[k] = "result"
    /\ cli[k] = "refused" => thr[k] = "closed" /\ wire[k] = "denial"
    /\ thr[k] = "none" => wire[k] = "empty"
    /\ thr[k] \in {"none", "queued", "accepted", "counted"}
         => runs[k] = 0 /\ wire[k] \in {"empty", "request"}
    /\ thr[k] \in {"replying", "answered", "closed"} => wire[k] \notin {"empty", "request"}
    /\ wire[k] = "result" => runs[k] = 1
    /\ wire[k] = "denial" => runs[k] = 0
    /\ runs[k] <= 1

OutcomeInv == \A k \in Calls : StageTells(k)

LEMMA OutcomeStep == CallsOK /\ OutcomeInv /\ [Next]_vars => OutcomeInv'
<1> SUFFICES ASSUME CallsOK, OutcomeInv, [Next]_vars, NEW c \in Calls PROVE StageTells(c)'
    BY DEF OutcomeInv
<1>0. StageTells(c)
    BY DEF OutcomeInv
<1> USE <1>0 DEF CallsOK, StageTells, callerVars, histVars, handlerVars
<1>1. ASSUME NEW k \in Calls, Call(k) \/ ConnectOk(k) \/ ConnectFull(k) \/ ConnectDenied(k)
                              \/ ConnectRefused(k) \/ Retry(k) \/ GiveUp(k)
      PROVE StageTells(c)'
    BY <1>1 DEF Call, ConnectOk, ConnectFull, ConnectDenied, ConnectRefused, Retry, GiveUp
<1>2. ASSUME NEW k \in Calls, \/ ReadAnswer(k) \/ ReadReset(k) \/ ReadTimeout(k)
                              \/ Renew(k) \/ Send(k) \/ Stall(k)
      PROVE StageTells(c)'
    <2>1. CASE ReadAnswer(k)
        BY <2>1 DEF ReadAnswer, Read
    <2>2. CASE ReadReset(k) \/ ReadTimeout(k) \/ Stall(k)
        BY <2>2 DEF ReadReset, ReadTimeout, Stall
    <2>3. CASE Renew(k)
        BY <2>3 DEF Renew, Settled
    <2>4. CASE Send(k)
        BY <2>4 DEF Send
    <2>5. QED
        BY <1>2, <2>1, <2>2, <2>3, <2>4
<1>3. ASSUME NEW k \in Calls, Handler(k) \/ Accept(k) PROVE StageTells(c)'
    BY <1>3 DEF Handler, Count, Execute, Refuse, Garbled, Answer, Uncount, Accept
<1>4. CASE Watcher \/ Bind \/ Open \/ LoopReady \/ StartUnit \/ Tick \/ UNCHANGED vars
    BY <1>4 DEF Watcher, WatchPoll, WatchReadN, WatchDecide, WatchUnlink, WatchShutdown,
       Bind, Open, LoopReady, StartUnit, Tick, vars
<1>5. CASE CloseServer
    BY <1>5 DEF CloseServer
<1>6. CASE Die
    BY <1>6 DEF Die, CutStates
<1>7. QED
    BY <1>1, <1>2, <1>3, <1>4, <1>5, <1>6
       DEF Next, Caller, Main, Drained, DrainDeadline, Kill

LEMMA OutcomeAlways == Spec => []OutcomeInv
<1>1. Init => OutcomeInv
    BY DEF Init, OutcomeInv, StageTells
<1>2. TypeOK /\ OutcomeInv /\ [Next]_vars => OutcomeInv'
    BY OutcomeStep DEF TypeOK
<1>3. QED
    BY <1>1, <1>2, TypeCorrect, PTL DEF Spec

\* Whatever is killed, restarted, retried or timed out, no command runs twice, a call
\* reported done ran, and one that reports it never connected did not.
THEOREM AtMostOnce == Spec => []OutcomeExact
<1>1. OutcomeInv => OutcomeExact
    BY DEF OutcomeInv, StageTells, OutcomeExact
<1>2. QED
    BY <1>1, OutcomeAlways, PTL
(***************************************************************************)
(* The daemon implements RemoteCall: connecting is asking, executing is    *)
(* running, and what the caller reads decides how its call ends.           *)
(***************************************************************************)
LEMMA RemoteStep == CallsOK /\ OutcomeInv /\ [Next]_vars => [RC!Next]_(RC!vars)
<1> SUFFICES ASSUME CallsOK, OutcomeInv, [Next]_vars PROVE RC!Next \/ UNCHANGED RC!vars
    OBVIOUS
<1> USE DEF CallsOK, CallerStates, Outcome, callerVars, histVars, handlerVars
<1>0. ASSUME NEW k \in Calls PROVE StageTells(k)
    BY DEF OutcomeInv
<1>1. UNCHANGED <<cli, runs>> => UNCHANGED RC!vars
    BY DEF RC!vars
<1>2. ASSUME NEW k \in Calls, Call(k) PROVE RC!Ask(k)
    BY <1>2 DEF Call, RC!Ask
<1>3. ASSUME NEW k \in Calls, ConnectOk(k) \/ ConnectRefused(k) \/ Retry(k)
      PROVE UNCHANGED RC!vars
    BY <1>3 DEF ConnectOk, ConnectRefused, Retry, RC!vars
<1>4. ASSUME NEW k \in Calls, ConnectFull(k) \/ ConnectDenied(k) \/ GiveUp(k) PROVE RC!Refuse(k)
    BY <1>0, <1>4 DEF ConnectFull, ConnectDenied, GiveUp, StageTells, RC!Refuse
<1>5. ASSUME NEW k \in Calls, ReadAnswer(k) PROVE RC!Succeed(k) \/ RC!Refuse(k) \/ RC!Fail(k)
    <2>1. CASE wire[k] = "result"
        BY <1>0, <1>5, <2>1 DEF ReadAnswer, Read, StageTells, RC!Succeed
    <2>2. CASE wire[k] = "denial"
        BY <1>0, <1>5, <2>2 DEF ReadAnswer, Read, StageTells, RC!Refuse
    <2>3. CASE wire[k] \notin {"result", "denial"}
        BY <1>5, <2>3 DEF ReadAnswer, Read, RC!Fail
    <2>4. QED
        BY <2>1, <2>2, <2>3
<1>6. ASSUME NEW k \in Calls, ReadReset(k) \/ ReadTimeout(k) PROVE RC!Fail(k)
    BY <1>6 DEF ReadReset, ReadTimeout, RC!Fail
<1>7. ASSUME NEW k \in Calls, Execute(k) PROVE RC!Run(k)
    <2>1. cli[k] \in {"sending", "waiting", "stalled", "error"} /\ runs[k] = 0
        BY <1>0, <1>7 DEF Execute, StageTells
    <2>2. runs' = [runs EXCEPT ![k] = 1] /\ UNCHANGED cli
        BY <2>1, <1>7 DEF Execute
    <2>3. QED
        BY <2>1, <2>2 DEF RC!Run
<1>8. ASSUME NEW k \in Calls,
             Count(k) \/ Refuse(k) \/ Garbled(k) \/ Answer(k) \/ Uncount(k) \/ Accept(k)
      PROVE UNCHANGED <<cli, runs>>
    BY <1>8 DEF Count, Refuse, Garbled, Answer, Uncount, Accept
<1>9. CASE Watcher \/ Bind \/ Open \/ LoopReady \/ CloseServer \/ Drained \/ DrainDeadline
           \/ Kill \/ StartUnit \/ Tick \/ UNCHANGED vars
    BY <1>1, <1>9 DEF Watcher, WatchPoll, WatchReadN, WatchDecide, WatchUnlink, WatchShutdown,
       Bind, Open, LoopReady, CloseServer, Drained, DrainDeadline, Kill, Die, StartUnit, Tick,
       vars
<1>10. ASSUME NEW k \in Calls, Renew(k) PROVE RC!Renew(k)
    BY <1>10 DEF Renew, Settled, RC!Renew
<1>11. ASSUME NEW k \in Calls, Send(k) PROVE RC!Fail(k) \/ UNCHANGED RC!vars
    BY <1>11 DEF Send, RC!Fail, RC!vars
<1>12. ASSUME NEW k \in Calls, Stall(k) PROVE UNCHANGED RC!vars
    BY <1>12 DEF Stall, RC!vars
<1>13. QED
    BY <1>1, <1>2, <1>3, <1>4, <1>5, <1>6, <1>7, <1>8, <1>9, <1>10, <1>11, <1>12
       DEF Next, Caller, Handler, Main, RC!Next

\* Restarts, kills and timeouts included, the daemon and its callers are an at-most-once
\* remote call.
THEOREM Implements == Spec => ImplementsRemoteCall
<1>1. Init => RC!Init
    BY DEF Init, RC!Init, Outcome
<1>2. TypeOK /\ OutcomeInv /\ [Next]_vars => [RC!Next]_(RC!vars)
    BY RemoteStep DEF TypeOK
<1>3. QED
    BY <1>1, <1>2, TypeCorrect, OutcomeAlways, PTL DEF Spec, RC!Spec, ImplementsRemoteCall

(***************************************************************************)
(* The decision to recycle.  The watcher's reads are old when it decides;  *)
(* while it stands between them, a request that arrived since has moved    *)
(* _LAST_ACTIVITY past the watcher's own clock reading.                    *)
(***************************************************************************)
ReadsStillTell ==
    /\ watcher # "off" => proc \in {"serving", "draining"}
    /\ watcher \in {"readN", "readLast"} => wnow <= up
    /\ watcher = "readLast" /\ wn = 0 => inflight = 0 \/ last >= wnow

LEMMA ReadsStep == DaemonOK /\ ReadsStillTell /\ [Next]_vars => ReadsStillTell'
<1> SUFFICES ASSUME DaemonOK, ReadsStillTell, [Next]_vars PROVE ReadsStillTell'
    OBVIOUS
<1> USE DEF DaemonOK, ReadsStillTell, handlerVars, watchVars, mainVars, timeVars, unitVars
<1>1. ASSUME NEW k \in Calls, CallerSide(k) PROVE ReadsStillTell'
    BY <1>1 DEF CallerSide, Call, Renew, Send, Stall, Caller, ConnectOk, ConnectFull,
       ConnectDenied, ConnectRefused, Retry, GiveUp, ReadAnswer, ReadReset, ReadTimeout
<1>2. ASSUME NEW k \in Calls, Handler(k) \/ Accept(k) PROVE ReadsStillTell'
    BY <1>2 DEF Handler, Count, Execute, Refuse, Garbled, Answer, Uncount, Accept
<1>3. CASE Watcher
    <2>1. CASE WatchPoll
        BY <2>1 DEF WatchPoll
    <2>2. CASE WatchReadN
        BY <2>2 DEF WatchReadN
    <2>3. CASE WatchDecide
        BY <2>3 DEF WatchDecide
    <2>4. CASE WatchUnlink \/ WatchShutdown
        BY <2>4 DEF WatchUnlink, WatchShutdown
    <2>5. QED
        BY <1>3, <2>1, <2>2, <2>3, <2>4 DEF Watcher
<1>4. CASE Bind \/ Open
    BY <1>4 DEF Bind, Open
<1>5. CASE LoopReady \/ CloseServer
    BY <1>5 DEF LoopReady, CloseServer
<1>6. CASE Drained \/ DrainDeadline \/ Kill
    BY <1>6 DEF Drained, DrainDeadline, Kill, Die
<1>7. CASE StartUnit \/ Tick \/ UNCHANGED vars
    BY <1>7 DEF StartUnit, Tick, vars
<1>8. QED
    BY <1>1, <1>2, <1>3, <1>4, <1>5, <1>6, <1>7 DEF Next, CallerSide, Main

LEMMA DecisionStep ==
    DaemonOK /\ ReadsStillTell /\ [Next]_vars
      => (watcher = "readLast" /\ watcher' = "unlink"
          => \/ up - After >= QuietMax
             \/ inflight = 0 /\ (last = Never \/ up - last >= Quiet))
<1> SUFFICES ASSUME DaemonOK, ReadsStillTell, [Next]_vars,
                    watcher = "readLast", watcher' = "unlink"
             PROVE \/ up - After >= QuietMax
                   \/ inflight = 0 /\ (last = Never \/ up - last >= Quiet)
    OBVIOUS
<1>1. WatchDecide
    BY DEF Next, Call, Renew, Send, Stall, Caller, ConnectOk, ConnectFull, ConnectDenied,
       ConnectRefused, Retry, GiveUp, ReadAnswer, ReadReset, ReadTimeout, Handler, Count,
       Execute, Refuse, Garbled, Answer, Uncount, Watcher, WatchPoll, WatchReadN, WatchUnlink,
       WatchShutdown, Main, Bind, Open, LoopReady, Accept, CloseServer, Drained, DrainDeadline,
       Kill, Die, StartUnit, Tick, watchVars, vars
<1>2. MayRecycle
    BY <1>1 DEF WatchDecide
<1>3. QED
    BY <1>2 DEF MayRecycle, DaemonOK, ReadsStillTell

\* For every timing: short of QuietMax the daemon never decides to recycle while a request
\* is in flight or was less than Quiet ago, though it decides on three reads of different age.
THEOREM DecidesOnTheTruth == Spec => DecidesWhenQuiet
<1>1. Init => ReadsStillTell
    BY DEF Init, ReadsStillTell
<1>2. TypeOK /\ ReadsStillTell /\ [Next]_vars => ReadsStillTell'
    BY ReadsStep DEF TypeOK
<1>3. TypeOK /\ ReadsStillTell /\ [Next]_vars
        => [watcher = "readLast" /\ watcher' = "unlink"
            => \/ up - After >= QuietMax
               \/ inflight = 0 /\ (last = Never \/ up - last >= Quiet)]_vars
    BY DecisionStep DEF TypeOK
<1>4. QED
    BY <1>1, <1>2, <1>3, TypeCorrect, PTL DEF Spec, DecidesWhenQuiet
(***************************************************************************)
(* The in-flight counter.  A process that is down holds no connection, and *)
(* only a serving one can be connected to.                                 *)
(***************************************************************************)
NoneLeftBehind ==
    /\ proc = "down" => inflight = 0 /\ \A k \in Calls : thr[k] \in {"none", "closed", "reset"}
    /\ sock = "open" => proc = "serving"

LEMMA LeftBehindStep == TypeOK /\ NoneLeftBehind /\ [Next]_vars => NoneLeftBehind'
<1> SUFFICES ASSUME CallsOK, DaemonOK, NoneLeftBehind, [Next]_vars PROVE NoneLeftBehind'
    BY DEF TypeOK
<1> USE DEF CallsOK, DaemonOK, ThreadStates, NoneLeftBehind, handlerVars, mainVars
<1>1. ASSUME NEW k \in Calls, CallerSide(k) PROVE NoneLeftBehind'
    BY <1>1 DEF CallerSide, Call, Renew, Send, Stall, Caller, ConnectOk, ConnectFull,
       ConnectDenied, ConnectRefused, Retry, GiveUp, ReadAnswer, ReadReset, ReadTimeout
<1>2. ASSUME NEW k \in Calls, Handler(k) \/ Accept(k) PROVE NoneLeftBehind'
    BY <1>2 DEF Handler, Count, Execute, Refuse, Garbled, Answer, Uncount, Accept
<1>3. CASE Watcher \/ LoopReady \/ StartUnit \/ Tick \/ UNCHANGED vars
    BY <1>3 DEF Watcher, WatchPoll, WatchReadN, WatchDecide, WatchUnlink, WatchShutdown,
       LoopReady, StartUnit, Tick, vars
<1>4. CASE Bind \/ Open \/ CloseServer
    BY <1>4 DEF Bind, Open, CloseServer
<1>5. CASE Drained \/ DrainDeadline \/ Kill
    BY <1>5 DEF Drained, DrainDeadline, Kill, Die, CutStates
<1>6. QED
    BY <1>1, <1>2, <1>3, <1>4, <1>5 DEF Next, CallerSide, Main

LEMMA CountStep ==
    CallsOK /\ DaemonOK /\ OutcomeInv /\ NoneLeftBehind /\ CountExact /\ [Next]_vars => CountExact'
<1> SUFFICES ASSUME CallsOK, DaemonOK, OutcomeInv, NoneLeftBehind, CountExact, [Next]_vars,
                    proc' # "down"
             PROVE inflight' = Cardinality(Counted')
    BY DEF CountExact
<1> USE DEF handlerVars, mainVars
<1>0. IsFiniteSet(Counted)
    BY FS_Subset DEF Counted
<1>1. CASE /\ UNCHANGED <<thr, inflight>> /\ proc # "down"
    BY <1>1 DEF CountExact, Counted
<1>2. CASE Bind
    <2>1. Counted' = {}
        BY <1>2 DEF Bind, NoneLeftBehind, Counted, CountedStates, handlerVars
    <2>2. QED
        BY <1>2, <2>1, FS_EmptySet DEF Bind, NoneLeftBehind
<1>3. CASE proc = "down" /\ ~Bind
    <2>1. UNCHANGED proc
        BY <1>3 DEF Next, Call, Renew, Send, Stall, Caller, ConnectOk, ConnectFull,
           ConnectDenied, ConnectRefused, Retry, GiveUp, ReadAnswer, ReadReset, ReadTimeout,
           Handler, Count, Execute, Refuse, Garbled, Answer, Uncount, Watcher, WatchPoll,
           WatchReadN, WatchDecide, WatchUnlink, WatchShutdown, Main, Open, LoopReady, Accept,
           CloseServer, Drained, DrainDeadline, Kill, StartUnit, Tick, vars
    <2>2. QED
        BY <1>3, <2>1
<1>4. ASSUME NEW k \in Calls, Count(k), proc # "down" PROVE inflight' = Cardinality(Counted')
    <2>1. k \notin Counted /\ Counted' = Counted \cup {k}
        BY <1>4 DEF Count, Counted, CountedStates, CallsOK
    <2>2. Cardinality(Counted') = Cardinality(Counted) + 1
        BY <1>0, <2>1, FS_AddElement
    <2>3. QED
        BY <1>4, <2>2 DEF Count, CountExact
<1>5. ASSUME NEW k \in Calls, Uncount(k), proc # "down" PROVE inflight' = Cardinality(Counted')
    <2>1. k \in Counted /\ Counted' = Counted \ {k}
        BY <1>5 DEF Uncount, Counted, CountedStates, CallsOK
    <2>2. Cardinality(Counted') = Cardinality(Counted) - 1
        BY <1>0, <2>1, FS_RemoveElement
    <2>3. QED
        BY <1>5, <2>2 DEF Uncount, CountExact
<1>6. ASSUME NEW k \in Calls, proc # "down",
             \/ ConnectOk(k) \/ Renew(k) \/ Accept(k)
             \/ Execute(k) \/ Refuse(k) \/ Garbled(k) \/ Answer(k)
      PROVE inflight' = Cardinality(Counted')
    <2>1. StageTells(k)
        BY DEF OutcomeInv
    <2>2. Counted' = Counted
        BY <1>6, <2>1 DEF ConnectOk, Renew, Accept, Execute, Refuse, Garbled, Answer, StageTells,
           Counted, CountedStates, CallsOK
    <2>3. UNCHANGED inflight
        BY <1>6 DEF ConnectOk, Renew, Accept, Execute, Refuse, Garbled, Answer
    <2>4. QED
        BY <1>6, <2>2, <2>3 DEF CountExact
<1>7. CASE CloseServer
    <2>1. Counted' = Counted
        BY <1>7 DEF CloseServer, Counted, CountedStates, CallsOK
    <2>2. QED
        BY <1>7, <2>1 DEF CloseServer, CountExact
<1>8. CASE Drained \/ DrainDeadline \/ Kill
    BY <1>8 DEF Drained, DrainDeadline, Kill, Die
<1>9. ASSUME NEW k \in Calls, CallerSide(k), ~ConnectOk(k), ~Renew(k)
      PROVE UNCHANGED <<thr, inflight>>
    BY <1>9 DEF CallerSide, Call, Renew, Send, Stall, Caller, ConnectFull, ConnectDenied,
       ConnectRefused, Retry, GiveUp, ReadAnswer, ReadReset, ReadTimeout
<1>10. CASE Watcher \/ Open \/ LoopReady \/ StartUnit \/ Tick \/ UNCHANGED vars
    <2>1. UNCHANGED <<thr, inflight>>
        BY <1>10 DEF Watcher, WatchPoll, WatchReadN, WatchDecide, WatchUnlink, WatchShutdown,
           Open, LoopReady, StartUnit, Tick, vars
    <2>2. QED
        BY <1>1, <1>2, <1>3, <2>1
<1>11. QED
    BY <1>1, <1>2, <1>3, <1>4, <1>5, <1>6, <1>7, <1>8, <1>9, <1>10 DEF Next, CallerSide, Main,
       Handler

\* For any number of calls and restarts the counter the recycle decides and drains by is the
\* number of handler threads that are between the two _inflight_add calls.
THEOREM CounterIsExact == Spec => []CountExact
<1>1. Init => NoneLeftBehind /\ CountExact
    BY DEF Init, NoneLeftBehind, CountExact
<1>2. TypeOK /\ NoneLeftBehind /\ [Next]_vars => NoneLeftBehind'
    BY LeftBehindStep
<1>3. TypeOK /\ OutcomeInv /\ NoneLeftBehind /\ CountExact /\ [Next]_vars => CountExact'
    BY CountStep DEF TypeOK
<1>4. QED
    BY <1>1, <1>2, <1>3, TypeCorrect, OutcomeAlways, PTL DEF Spec
(***************************************************************************)
(* What the recycle cuts.  Once the watcher has unlinked the socket nobody *)
(* can join the backlog any more, so a backlog that is empty when the      *)
(* accept loop is told to stop is empty when the socket is closed.         *)
(***************************************************************************)
BacklogGone ==
    /\ watcher \in {"grace", "done"} => sock # "open"
    /\ proc \in {"down", "starting"} => stopping = FALSE
    /\ proc = "serving" /\ stopping = TRUE => Queued = {} /\ sock # "open"
    /\ proc = "draining" => Queued = {}

LEMMA BacklogStep ==
    ASSUME GraceDrains = TRUE
    PROVE  CallsOK /\ DaemonOK /\ NoneLeftBehind /\ ReadsStillTell /\ BacklogGone /\ [Next]_vars
             => BacklogGone'
<1> SUFFICES ASSUME CallsOK, DaemonOK, NoneLeftBehind, ReadsStillTell, BacklogGone, [Next]_vars
             PROVE BacklogGone'
    OBVIOUS
<1> USE DEF BacklogGone, handlerVars, mainVars, watchVars
<1>1. ASSUME Queued' \subseteq Queued, UNCHANGED <<watcher, sock, proc, stopping>>
      PROVE BacklogGone'
    BY <1>1
<1>2. ASSUME NEW k \in Calls, ConnectOk(k) PROVE BacklogGone'
    <2>1. proc = "serving" /\ sock = "open" /\ stopping # TRUE
        BY <1>2 DEF ConnectOk, NoneLeftBehind
    <2>2. QED
        BY <1>2, <2>1 DEF ConnectOk
<1>3. ASSUME NEW k \in Calls, CallerSide(k) \/ Handler(k) \/ Accept(k),
             ~ConnectOk(k)
      PROVE BacklogGone'
    <2>1. Queued' \subseteq Queued
        BY <1>3 DEF CallerSide, Call, Renew, Send, Stall, Caller, ConnectFull, ConnectDenied,
           ConnectRefused, Retry, GiveUp, ReadAnswer, ReadReset, ReadTimeout, Handler, Count,
           Execute, Refuse, Garbled, Answer, Uncount, Accept, Queued, CallsOK
    <2>2. UNCHANGED <<watcher, sock, proc, stopping>>
        BY <1>3 DEF CallerSide, Call, Renew, Send, Stall, Caller, ConnectFull, ConnectDenied,
           ConnectRefused, Retry, GiveUp, ReadAnswer, ReadReset, ReadTimeout, Handler, Count,
           Execute, Refuse, Garbled, Answer, Uncount, Accept
    <2>3. QED
        BY <1>1, <2>1, <2>2
<1>4. CASE LoopReady \/ StartUnit \/ Tick \/ UNCHANGED vars
    BY <1>4 DEF LoopReady, StartUnit, Tick, vars, Queued
<1>5. CASE WatchPoll \/ WatchReadN \/ WatchDecide \/ WatchUnlink
    BY <1>5 DEF WatchPoll, WatchReadN, WatchDecide, WatchUnlink, Queued
<1>6. CASE WatchShutdown
    BY <1>6 DEF WatchShutdown, ReadsStillTell, Queued
<1>7. CASE Bind \/ Open
    BY <1>7 DEF Bind, Open, ReadsStillTell, Queued
<1>8. CASE CloseServer
    BY <1>8 DEF CloseServer, Queued
<1>9. CASE Drained \/ DrainDeadline \/ Kill
    BY <1>9 DEF Drained, DrainDeadline, Kill, Die
<1>10. QED
    BY <1>2, <1>3, <1>4, <1>5, <1>6, <1>7, <1>8, <1>9 DEF Next, CallerSide, Main, Watcher

LEMMA CutStep ==
    CallsOK /\ DaemonOK /\ CountExact /\ BacklogGone /\ RecycleCutsNothing /\ [Next]_vars
      => RecycleCutsNothing'
<1> SUFFICES ASSUME CallsOK, DaemonOK, CountExact, BacklogGone, RecycleCutsNothing, [Next]_vars
             PROVE RecycleCutsNothing'
    OBVIOUS
<1> USE DEF RecycleCutsNothing, CountedStates
<1>1. ASSUME UNCHANGED lost PROVE RecycleCutsNothing'
    BY <1>1
<1>2. CASE CloseServer
    BY <1>2 DEF CloseServer, BacklogGone
<1>3. CASE Drained
    <2>1. Counted = {}
        <3>1. IsFiniteSet(Counted) /\ Cardinality(Counted) = 0
            BY <1>3, FS_Subset DEF Drained, CountExact, Counted
        <3>2. QED
            BY <3>1, FS_EmptySet
    <2>2. \A k \in Calls : thr[k] \notin CountedStates \cup {"queued"}
        BY <1>3, <2>1 DEF Drained, BacklogGone, Counted, Queued
    <2>3. QED
        BY <1>3, <2>2 DEF Drained, Die
<1>4. CASE DrainDeadline \/ Kill
    BY <1>1, <1>4 DEF DrainDeadline, Kill
<1>5. ASSUME NEW k \in Calls, Renew(k) PROVE RecycleCutsNothing'
    BY <1>5 DEF Renew
<1>6. CASE ~((\E k \in Calls : Renew(k)) \/ CloseServer \/ Drained \/ DrainDeadline \/ Kill)
    <2>1. UNCHANGED lost
        BY <1>6 DEF Next, Call, Renew, Send, Stall, Caller, ConnectOk, ConnectFull,
           ConnectDenied, ConnectRefused, Retry, GiveUp, ReadAnswer, ReadReset, ReadTimeout,
           Handler, Count, Execute, Refuse, Garbled, Answer, Uncount, Watcher, WatchPoll,
           WatchReadN, WatchDecide, WatchUnlink, WatchShutdown, Main, Bind, Open, LoopReady,
           Accept, StartUnit, Tick, histVars, vars
    <2>2. QED
        BY <1>1, <2>1
<1>7. QED
    BY <1>2, <1>3, <1>4, <1>5, <1>6

\* If the second of grace lets the accept loop empty the backlog, the recycle cuts no request
\* that was counted or queued; only the drain's deadline and a kill do.
THEOREM RecycleIsGentle ==
    ASSUME GraceDrains = TRUE
    PROVE  Spec => []RecycleCutsNothing
<1>1. Init => BacklogGone /\ NoneLeftBehind /\ ReadsStillTell /\ RecycleCutsNothing
    BY DEF Init, BacklogGone, NoneLeftBehind, ReadsStillTell, RecycleCutsNothing, Queued
<1>2. TypeOK /\ NoneLeftBehind /\ [Next]_vars => NoneLeftBehind'
    BY LeftBehindStep
<1>3. TypeOK /\ ReadsStillTell /\ [Next]_vars => ReadsStillTell'
    BY ReadsStep DEF TypeOK
<1>4. TypeOK /\ NoneLeftBehind /\ ReadsStillTell /\ BacklogGone /\ [Next]_vars => BacklogGone'
    BY BacklogStep DEF TypeOK
<1>5. TypeOK /\ CountExact /\ BacklogGone /\ RecycleCutsNothing /\ [Next]_vars
        => RecycleCutsNothing'
    BY CutStep DEF TypeOK
<1>6. QED
    BY <1>1, <1>2, <1>3, <1>4, <1>5, TypeCorrect, CounterIsExact, PTL DEF Spec
=============================================================================
