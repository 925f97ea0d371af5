------------------------- MODULE CallManagerProofs --------------------------
(***************************************************************************)
(* The call manager keeps its three mutexes consistent, for any calls and  *)
(* any number of inputs: the active call is in the map, busy is not left   *)
(* on, and a hangup that came before its offer is applied.                 *)
(*                                                                         *)
(* None of this is inductive.  A call leaves the map when the task that    *)
(* drops it runs, so the invariant says that the active call has no such   *)
(* task, nor a thread that is about to queue one (EndInv); and since an    *)
(* offer is under way while the other threads run, that its call is new to *)
(* all of them or still in the map.                                        *)
(***************************************************************************)
EXTENDS CallManager, FiniteSetTheorems, SequenceTheorems, TLAPS

(* A leaf is left to Zenon unless it says otherwise: most are first-order  *)
(* reasoning over sets and functions.                                      *)
USE ZenonT(60)

Step == {"idle", "find", "clear", "release", "conclude", "start", "replace", "reject"}

Offered == {"start", "replace", "reject"}

Target == Calls \cup {None}

ThreadState == [pc : Step, target : Target, cause : Target]

Pending == [kind : {"none", "ice", "hangup"}, call : Calls \cup {None}]

(* A task will drop the call. *)
Queued(c) == \E i \in 1..Len(tasks) : tasks[i] = c

(* A thread has cleared the active call and will queue a task for c. *)
EndsSoon(c) == \E t \in Threads : thread[t].pc \in {"release", "conclude"} /\ thread[t].target = c

(* No thread, task or map has seen the call. *)
Fresh(c) ==
  /\ c \notin calls /\ c # active
  /\ ~Queued(c)
  /\ \A t \in Threads : thread[t].target # c

Types == TypeOK /\ IsFiniteSet(calls)

BusyInv == busy /\ active = None /\ ~joined => \E t \in Threads : thread[t].pc = "release"

(* Only the manager's worker handles offers. *)
OfferInv ==
  /\ thread[None].pc \in Offered => offer # None
  /\ thread[None].pc \in {"replace", "reject"} => thread[None].target # None
  /\ \A c \in Calls : thread[c].pc \notin Offered

UsedInv ==
  /\ calls \subseteq used /\ {active, offer} \subseteq used \cup {None}
  /\ \A t \in Threads : thread[t].target \in used \cup {None}
  /\ \A i \in 1..Len(tasks) : tasks[i] \in used

EndInv ==
  /\ active # None => active \in calls
  /\ \A c \in Calls : EndsSoon(c) => active # c
  /\ active # None /\ Queued(active) => thread[None].pc = "clear"
  /\ thread[None].pc \in Offered => offer \in calls \/ Fresh(offer)

EarlyInv ==
  early # None =>
    /\ early \in Incoming
    /\ \/ early \in hungUp
       \/ pending = [kind |-> "hangup", call |-> early] /\ early # active

Inv == BusyInv /\ OfferInv /\ UsedInv /\ (~repeated => EndInv) /\ EarlyInv

-----------------------------------------------------------------------------
(* None is not a call. *)
LEMMA NoneIsNoCall == None \notin Calls /\ None \in Threads /\ Calls \subseteq Threads
BY CallManagerAssumption DEF Calls, None, Threads

LEMMA Targets == None \in Target /\ \A c \in Calls : c \in Target
BY DEF Target

LEMMA StepNames ==
  /\ "idle" \in Step /\ "find" \in Step /\ "clear" \in Step /\ "release" \in Step
  /\ "conclude" \in Step /\ "start" \in Step /\ "replace" \in Step /\ "reject" \in Step
BY DEF Step

LEMMA StateFields ==
  ASSUME NEW s \in ThreadState
  PROVE  s.pc \in Step /\ s.target \in Target /\ s.cause \in Target
BY DEF ThreadState

LEMMA IdleState == Idle \in ThreadState /\ Idle.pc = "idle" /\ Idle.target = None
BY Targets, StepNames DEF Idle, At, ThreadState

LEMMA StepState ==
  ASSUME NEW s \in ThreadState, NEW p \in Step
  PROVE  /\ [s EXCEPT !.pc = p] \in ThreadState
         /\ [s EXCEPT !.pc = p].pc = p /\ [s EXCEPT !.pc = p].target = s.target
BY DEF ThreadState

(* What a thread that moves leaves alone. *)
LEMMA Moved ==
  ASSUME thread \in [Threads -> ThreadState],
         NEW t \in Threads, NEW to \in ThreadState, Moves(t, to)
  PROVE  /\ thread' \in [Threads -> ThreadState]
         /\ thread'[t] = to
         /\ \A u \in Threads : u # t => thread'[u] = thread[u]
BY DEF Moves

-----------------------------------------------------------------------------
(* Steps that change no shared state, or move a thread that is about to    *)
(* end a call of the map.                                                  *)

shared == <<active, busy, calls, offer, tasks, joined, repeated>>

LEMMA KeepsShared ==
  ASSUME Inv, UNCHANGED <<shared, thread>>, used \subseteq used'
  PROVE  BusyInv' /\ OfferInv' /\ UsedInv' /\ (~repeated' => EndInv')
BY DEF Inv, shared, BusyInv, OfferInv, UsedInv, EndInv, EndsSoon, Queued, Fresh

LEMMA KeepsEarly ==
  ASSUME Inv, UNCHANGED <<early, hungUp, pending>>, active' \in {active, None}
  PROVE  EarlyInv'
BY DEF Inv, EarlyInv, None

LEMMA MovesOn ==
  ASSUME Types, Inv, UNCHANGED shared, used \subseteq used',
         UNCHANGED <<early, hungUp, pending>>,
         thread \in [Threads -> ThreadState],
         NEW t \in Threads, NEW to \in ThreadState, Moves(t, to),
         thread[t].pc \notin Offered \cup {"clear", "release"},
         to.pc \notin Offered, to.target \in calls \cup {None},
         to.pc \in {"release", "conclude"} => active # to.target
  PROVE  Inv'
<1>1. /\ thread'[t] = to
      /\ \A u \in Threads : u # t => thread'[u] = thread[u]
  BY Moved
<1>2. BusyInv'
  BY <1>1 DEF Inv, BusyInv, shared
<1>3. OfferInv'
  BY <1>1, NoneIsNoCall DEF Inv, OfferInv, shared, Offered
<1>4. UsedInv'
  BY <1>1 DEF Inv, UsedInv, shared
<1>5. ~repeated' => EndInv'
  <2>. SUFFICES ASSUME ~repeated PROVE EndInv'
    BY DEF shared
  <2>1. EndInv
    BY DEF Inv
  <2>2. (active # None => active \in calls)'
    BY <2>1 DEF EndInv, shared
  <2>3. ASSUME NEW c \in Calls, EndsSoon(c)' PROVE active' # c
    <3>1. PICK u \in Threads : thread'[u].pc \in {"release", "conclude"} /\ thread'[u].target = c
      BY <2>3 DEF EndsSoon
    <3>2. CASE u = t
      BY <3>1, <3>2, <1>1 DEF shared
    <3>3. CASE u # t
      BY <3>1, <3>3, <1>1, <2>1 DEF EndInv, EndsSoon, shared
    <3>. QED
      BY <3>2, <3>3
  <2>4. (active # None /\ Queued(active) => thread[None].pc = "clear")'
    BY <1>1, <2>1, NoneIsNoCall DEF EndInv, Queued, shared
  <2>5. (thread[None].pc \in Offered => offer \in calls \/ Fresh(offer))'
    <3>. SUFFICES ASSUME thread'[None].pc \in Offered, offer \notin calls
                  PROVE  Fresh(offer)'
      BY DEF shared
    <3>1. t # None /\ thread[None].pc \in Offered
      BY <1>1, NoneIsNoCall
    <3>2. Fresh(offer) /\ offer # None
      BY <3>1, <2>1 DEF EndInv, Inv, OfferInv
    <3>3. to.target # offer
      BY <3>2
    <3>. QED
      BY <3>2, <3>3, <1>1 DEF Fresh, Queued, shared
  <2>. QED
    BY <2>2, <2>3, <2>4, <2>5 DEF EndInv
<1>6. EarlyInv'
  BY KeepsEarly DEF shared
<1>. QED
  BY <1>2, <1>3, <1>4, <1>5, <1>6 DEF Inv

-----------------------------------------------------------------------------
(* Types.                                                                  *)

LEMMA ThreadTypes == TypeOK => thread \in [Threads -> ThreadState]
BY DEF TypeOK, ThreadState, Step, Target

(* A move keeps the types, if nothing else that has one changes. *)
LEMMA TypedMove ==
  ASSUME Types, NEW t \in Threads, NEW to \in ThreadState, Moves(t, to),
         UNCHANGED <<active, busy, callVars, pending, offer, tasks, joined, hungUp, early,
                     repeated>>,
         used' \subseteq Calls, ended' \subseteq Calls, inputs' \in 0..MaxInputs
  PROVE  Types'
<1>1. thread' \in [Threads -> ThreadState]
  BY Moved, ThreadTypes DEF Types
<1>. QED
  BY SMT, <1>1 DEF Types, TypeOK, ThreadState, Step, Target, callVars

LEMMA InputTypes == TypeOK /\ Input => inputs' \in 0..MaxInputs
BY SMT, CallManagerAssumption DEF TypeOK, Input

-----------------------------------------------------------------------------
(* Ending the active call.                                                 *)

LEMMA FindsActiveStep ==
  ASSUME Types, Inv, NEW t \in Threads, FindsActive(t)
  PROVE  Types' /\ Inv'
<1>. DEFINE to == IF ActiveCall THEN At("clear", active, thread[t].cause) ELSE Idle
<1>1. thread \in [Threads -> ThreadState] /\ thread[t] \in ThreadState
  BY ThreadTypes DEF Types
<1>2. active \in Target /\ thread[t].cause \in Target /\ (ActiveCall => active \in calls)
  BY <1>1, StateFields DEF Types, TypeOK, ActiveCall, Target
<1>3. /\ to \in ThreadState /\ to.pc \in {"clear", "idle"} /\ to.target \in calls \cup {None}
  <2>1. CASE ActiveCall
    BY <1>2, <2>1, StepNames, Targets DEF At, ThreadState
  <2>2. CASE ~ActiveCall
    BY <2>2, IdleState
  <2>. QED
    BY <2>1, <2>2
<1>4. Moves(t, to) /\ thread[t].pc = "find"
  BY DEF FindsActive
<1>. HIDE DEF to
<1>5. Types'
  BY <1>3, <1>4, TypedMove DEF FindsActive, history, Types, TypeOK
<1>6. Inv'
  BY <1>1, <1>3, <1>4, MovesOn DEF FindsActive, history, shared, callVars, Offered
<1>. QED
  BY <1>5, <1>6

LEMMA CallEndsStep ==
  ASSUME Types, Inv, NEW c \in Calls, CallEnds(c)
  PROVE  Types' /\ Inv'
<1>. DEFINE to == At("find", None, c)
<1>1. thread \in [Threads -> ThreadState] /\ c \in Threads
  BY ThreadTypes, NoneIsNoCall DEF Types
<1>2. to \in ThreadState /\ to.pc = "find" /\ to.target = None
  BY StepNames, Targets DEF At, ThreadState
<1>3. Moves(c, to) /\ thread[c].pc = "idle" /\ inputs' \in 0..MaxInputs
  BY InputTypes DEF CallEnds, Types
<1>. HIDE DEF to
<1>4. Types'
  BY <1>1, <1>2, <1>3, TypedMove DEF CallEnds, history, Types, TypeOK
<1>5. Inv'
  BY <1>1, <1>2, <1>3, MovesOn DEF CallEnds, history, shared, callVars, Offered
<1>. QED
  BY <1>4, <1>5

LEMMA HangupStep ==
  ASSUME Types, Inv, handle_hangup
  PROVE  Types' /\ Inv'
<1>. DEFINE to == At("clear", active, active)
<1>1. thread \in [Threads -> ThreadState] /\ None \in Threads
  BY ThreadTypes, NoneIsNoCall DEF Types
<1>2. to \in ThreadState /\ to.pc = "clear" /\ to.target \in calls
  <2>1. active \in calls /\ active \in Target
    BY DEF handle_hangup, ActiveCall, Types, TypeOK, Target
  <2>. QED
    BY <2>1, StepNames, Targets DEF At, ThreadState
<1>3. Moves(None, to) /\ thread[None].pc = "idle" /\ inputs' \in 0..MaxInputs
  BY InputTypes DEF handle_hangup, Request, Types
<1>. HIDE DEF to
<1>4. Types'
  BY <1>1, <1>2, <1>3, TypedMove DEF handle_hangup, history, Types, TypeOK
<1>5. Inv'
  BY <1>1, <1>2, <1>3, MovesOn DEF handle_hangup, history, shared, callVars, Offered
<1>. QED
  BY <1>4, <1>5

LEMMA SendFailureStep ==
  ASSUME Types, Inv, NEW c \in Calls, handle_message_send_failure(c)
  PROVE  Types' /\ Inv'
<1>. DEFINE to == IF active = c THEN At("find", None, c) ELSE At("conclude", c, c)
<1>1. thread \in [Threads -> ThreadState] /\ None \in Threads
  BY ThreadTypes, NoneIsNoCall DEF Types
<1>2. /\ to \in ThreadState /\ to.pc \in {"find", "conclude"}
      /\ to.target \in calls \cup {None}
      /\ to.pc = "conclude" => active # to.target
  <2>1. c \in calls
    BY DEF handle_message_send_failure
  <2>2. CASE active = c
    BY <2>2, StepNames, Targets DEF At, ThreadState
  <2>3. CASE active # c
    BY <2>1, <2>3, StepNames, Targets DEF At, ThreadState
  <2>. QED
    BY <2>2, <2>3
<1>3. Moves(None, to) /\ thread[None].pc = "idle" /\ inputs' \in 0..MaxInputs
  BY InputTypes DEF handle_message_send_failure, Request, Types
<1>. HIDE DEF to
<1>4. Types'
  BY <1>1, <1>2, <1>3, TypedMove DEF handle_message_send_failure, history, Types, TypeOK
<1>5. Inv'
  BY <1>1, <1>2, <1>3, MovesOn
     DEF handle_message_send_failure, history, shared, callVars, Offered
<1>. QED
  BY <1>4, <1>5

LEMMA AppendedTask ==
  ASSUME tasks \in Seq(Calls), NEW c \in Calls, tasks' = Append(tasks, c)
  PROVE  /\ tasks' \in Seq(Calls)
         /\ \A i \in 1..Len(tasks') : tasks'[i] = c \/ \E j \in 1..Len(tasks) : tasks'[i] = tasks[j]
BY SMT DEF Calls

LEMMA ClearStep ==
  ASSUME Types, Inv, NEW t \in Threads, clear_active_call(t)
  PROVE  Types' /\ Inv'
<1>. DEFINE to == [thread[t] EXCEPT !.pc = "release"]
<1>1. thread \in [Threads -> ThreadState] /\ thread[t] \in ThreadState
  BY ThreadTypes DEF Types
<1>2. to \in ThreadState /\ to.pc = "release" /\ to.target = thread[t].target
  BY <1>1, StepState, StepNames
<1>3. thread[t].pc = "clear" /\ Moves(t, to)
  BY DEF clear_active_call
<1>. HIDE DEF to
<1>4. /\ thread' \in [Threads -> ThreadState] /\ thread'[t] = to
      /\ \A u \in Threads : u # t => thread'[u] = thread[u]
  BY <1>1, <1>2, <1>3, Moved
<1>5. Types'
  BY <1>4 DEF Types, TypeOK, ThreadState, Step, Target, clear_active_call, callVars, history
<1>6. BusyInv'
  BY <1>2, <1>4 DEF BusyInv
<1>7. OfferInv'
  BY <1>2, <1>3, <1>4, NoneIsNoCall DEF Inv, OfferInv, Offered, clear_active_call
<1>8. UsedInv'
  BY <1>2, <1>4 DEF Inv, UsedInv, clear_active_call, callVars, history
<1>9. ~repeated' => EndInv'
  <2>. SUFFICES ASSUME ~repeated PROVE EndInv'
    BY DEF clear_active_call, history
  <2>1. active' = None /\ EndInv
    BY DEF clear_active_call, Inv
  <2>2. (thread[None].pc \in Offered => offer \in calls \/ Fresh(offer))'
    <3>. SUFFICES ASSUME thread'[None].pc \in Offered, offer' \notin calls'
                  PROVE  Fresh(offer)'
      OBVIOUS
    <3>1. thread[None].pc \in Offered
      BY <1>2, <1>4, NoneIsNoCall DEF Offered
    <3>2. Fresh(offer) /\ offer # None
      BY <2>1, <3>1 DEF EndInv, Inv, OfferInv, clear_active_call, callVars
    <3>. QED
      BY <1>2, <1>4, <2>1, <3>2 DEF Fresh, Queued, clear_active_call, callVars
  <2>. QED
    BY <2>1, <2>2, NoneIsNoCall DEF EndInv
<1>10. EarlyInv'
  BY KeepsEarly DEF clear_active_call, history
<1>. QED
  BY <1>5, <1>6, <1>7, <1>8, <1>9, <1>10 DEF Inv

LEMMA ReleaseStep ==
  ASSUME Types, Inv, NEW t \in Threads, release_busy(t)
  PROVE  Types' /\ Inv'
<1>. DEFINE to == [thread[t] EXCEPT !.pc = "conclude"]
<1>1. thread \in [Threads -> ThreadState] /\ thread[t] \in ThreadState
  BY ThreadTypes DEF Types
<1>2. to \in ThreadState /\ to.pc = "conclude" /\ to.target = thread[t].target
  BY <1>1, StepState, StepNames
<1>3. thread[t].pc = "release" /\ Moves(t, to) /\ ~busy'
  BY DEF release_busy
<1>. HIDE DEF to
<1>4. /\ thread' \in [Threads -> ThreadState] /\ thread'[t] = to
      /\ \A u \in Threads : u # t => thread'[u] = thread[u]
  BY <1>1, <1>2, <1>3, Moved
<1>. USE DEF release_busy, callVars, history
<1>5. Types'
  BY <1>4 DEF Types, TypeOK, ThreadState, Step, Target
<1>6. BusyInv'
  BY <1>3 DEF BusyInv
<1>7. OfferInv'
  BY <1>2, <1>3, <1>4, NoneIsNoCall DEF Inv, OfferInv, Offered
<1>8. UsedInv'
  BY <1>2, <1>4 DEF Inv, UsedInv
<1>9. ~repeated' => EndInv'
  <2>. SUFFICES ASSUME ~repeated PROVE EndInv'
    OBVIOUS
  <2>1. EndInv
    BY DEF Inv
  <2>2. \A c \in Calls : EndsSoon(c)' => EndsSoon(c)
    BY <1>2, <1>3, <1>4 DEF EndsSoon
  <2>3. \A u \in Threads : /\ thread'[u].target = thread[u].target
                           /\ thread'[u].pc \in Offered => thread[u].pc \in Offered
                           /\ thread[u].pc = "clear" => thread'[u].pc = "clear"
    BY <1>2, <1>3, <1>4 DEF Offered
  <2>4. \A c : Fresh(c) => Fresh(c)'
    BY <2>3 DEF Fresh, Queued
  <2>. QED
    BY <2>1, <2>2, <2>3, <2>4, NoneIsNoCall DEF EndInv, Queued
<1>10. EarlyInv'
  BY KeepsEarly
<1>. QED
  BY SMTT(30), <1>5, <1>6, <1>7, <1>8, <1>9, <1>10 DEF Inv

LEMMA ConcludesStep ==
  ASSUME Types, Inv, NEW t \in Threads, Concludes(t)
  PROVE  Types' /\ Inv'
<1>. DEFINE c == thread[t].target
<1>1. thread \in [Threads -> ThreadState] /\ thread[t] \in ThreadState /\ tasks \in Seq(Calls)
  BY ThreadTypes DEF Types, TypeOK
<1>2. c \in Calls \cup {None} /\ thread[t].pc = "conclude" /\ Moves(t, Idle)
  BY <1>1, StateFields DEF Concludes, Target
<1>3. Idle \in ThreadState /\ Idle.pc = "idle" /\ Idle.target = None
  BY IdleState
<1>4. /\ thread' \in [Threads -> ThreadState] /\ thread'[t] = Idle
      /\ \A u \in Threads : u # t => thread'[u] = thread[u]
  BY <1>1, <1>2, <1>3, Moved
<1>. USE DEF Concludes, terminate_call
<1>5. /\ tasks' \in Seq(Calls)
      /\ \A i \in 1..Len(tasks') :
           \/ c \in Calls /\ tasks'[i] = c
           \/ \E j \in 1..Len(tasks) : tasks'[i] = tasks[j]
  <2>1. CASE c = None
    BY <1>1, <2>1
  <2>2. CASE c # None
    BY <1>1, <1>2, <2>2, AppendedTask
  <2>. QED
    BY <2>1, <2>2
<1>6. \A x : Queued(x)' => Queued(x) \/ (x = c /\ c \in Calls)
  BY <1>5 DEF Queued
<1>. HIDE DEF c
<1>7. Types'
  <2>1. phase' \in [Calls -> {"early", "accepted", "terminating"}] /\ ended' \subseteq Calls
    BY <1>2 DEF Types, TypeOK, c
  <2>. QED
    BY SMT, <1>4, <1>5, <2>1 DEF Types, TypeOK, ThreadState, Step, Target
<1>8. BusyInv'
  BY <1>2, <1>4 DEF Inv, BusyInv
<1>9. OfferInv'
  BY <1>3, <1>4, NoneIsNoCall DEF Inv, OfferInv, Offered
<1>10. UsedInv'
  BY <1>3, <1>4, <1>5 DEF Inv, UsedInv, c
<1>11. ~repeated' => EndInv'
  <2>. SUFFICES ASSUME ~repeated PROVE EndInv'
    OBVIOUS
  <2>1. EndInv
    BY DEF Inv
  <2>2. \A x \in Calls : EndsSoon(x)' => EndsSoon(x)
    BY <1>3, <1>4 DEF EndsSoon
  <2>3. c \in Calls => active # c
    BY <1>2, <2>1 DEF EndInv, EndsSoon, c
  <2>4. (active # None /\ Queued(active) => thread[None].pc = "clear")'
    BY <1>2, <1>4, <1>6, <2>1, <2>3, NoneIsNoCall DEF EndInv
  <2>5. (thread[None].pc \in Offered => offer \in calls \/ Fresh(offer))'
    <3>. SUFFICES ASSUME thread'[None].pc \in Offered, offer \notin calls
                  PROVE  Fresh(offer)'
      OBVIOUS
    <3>1. thread[None].pc \in Offered
      BY <1>3, <1>4, NoneIsNoCall DEF Offered
    <3>2. Fresh(offer) /\ offer # None
      BY <2>1, <3>1 DEF EndInv, Inv, OfferInv
    <3>3. ~Queued(offer)'
      BY <1>6, <3>2 DEF Fresh, c
    <3>. QED
      BY <1>3, <1>4, <3>2, <3>3 DEF Fresh
  <2>. QED
    BY <2>1, <2>2, <2>4, <2>5 DEF EndInv
<1>12. EarlyInv'
  BY KeepsEarly
<1>. QED
  BY <1>7, <1>8, <1>9, <1>10, <1>11, <1>12 DEF Inv

LEMMA DropStep ==
  ASSUME Types, Inv, terminate_and_drop_call
  PROVE  Types' /\ Inv'
<1>. USE DEF terminate_and_drop_call
<1>1. /\ tasks \in Seq(Calls) /\ tasks # <<>>
      /\ Head(tasks) \in Calls /\ tasks' \in Seq(Calls) /\ Queued(Head(tasks))
      /\ \A i \in 1..Len(tasks') : \E j \in 1..Len(tasks) : tasks'[i] = tasks[j]
  BY SMT DEF Types, TypeOK, Queued
<1>2. \A x : Queued(x)' => Queued(x)
  BY <1>1 DEF Queued
<1>3. IsFiniteSet(calls')
  BY FS_RemoveElement DEF Types
<1>4. Types'
  BY SMT, <1>1, <1>3 DEF Types, TypeOK
<1>5. BusyInv' /\ OfferInv'
  BY DEF Inv, BusyInv, OfferInv
<1>6. UsedInv'
  BY <1>1 DEF Inv, UsedInv
<1>7. ~repeated' => EndInv'
  <2>. SUFFICES ASSUME ~repeated PROVE EndInv'
    OBVIOUS
  <2>1. EndInv /\ thread[None].pc = "idle"
    BY DEF Inv
  <2>2. active # None => active # Head(tasks)
    BY <1>1, <2>1 DEF EndInv
  <2>3. \A x \in Calls : EndsSoon(x)' => EndsSoon(x)
    BY DEF EndsSoon
  <2>. QED
    BY <1>2, <2>1, <2>2, <2>3 DEF EndInv, Offered
<1>8. EarlyInv'
  BY KeepsEarly
<1>. QED
  BY <1>4, <1>5, <1>6, <1>7, <1>8 DEF Inv

-----------------------------------------------------------------------------
(* Calls and requests.                                                     *)

LEMMA AdvancesStep ==
  ASSUME Types, Inv, NEW c \in Calls, CallAdvances(c)
  PROVE  Types' /\ Inv'
<1>. USE DEF CallAdvances, history
<1>1. known' \subseteq Calls /\ phase' \in [Calls -> {"early", "accepted", "terminating"}]
  BY DEF Types, TypeOK
<1>2. Types'
  BY SMT, <1>1, InputTypes DEF Types, TypeOK
<1>3. Inv'
  BY KeepsShared, KeepsEarly DEF shared, Inv
<1>. QED
  BY <1>2, <1>3

(* A call that no thread knows of becomes the active one. *)
LEMMA StartsFresh ==
  ASSUME Types, Inv, NEW c \in Calls, Starts(c), ~repeated => Fresh(c) \/ repeated',
         UNCHANGED <<tasks, joined>>, c \in used', used \subseteq used',
         offer' \in {offer, None},
         repeated' \/ UNCHANGED repeated,
         thread'[None].pc \notin Offered,
         \A t \in Threads : thread'[t] = thread[t] \/ (t = None /\ thread'[t] = Idle)
  PROVE  BusyInv' /\ OfferInv' /\ UsedInv' /\ (~repeated' => EndInv') /\ IsFiniteSet(calls')
<1>. USE DEF Starts
<1>1. c # None /\ active' = c /\ Idle.pc = "idle" /\ Idle.target = None
  BY NoneIsNoCall, IdleState
<1>2. BusyInv'
  BY <1>1 DEF BusyInv
<1>3. OfferInv'
  BY <1>1, NoneIsNoCall DEF Inv, OfferInv, Offered
<1>4. UsedInv'
  BY <1>1 DEF Inv, UsedInv
<1>5. ~repeated' => EndInv'
  <2>. SUFFICES ASSUME ~repeated' PROVE EndInv'
    OBVIOUS
  <2>1. Fresh(c)
    BY DEF Inv
  <2>2. \A x \in Calls : EndsSoon(x)' => x # c
    BY <1>1, <2>1 DEF EndsSoon, Fresh
  <2>. QED
    BY <1>1, <2>1, <2>2 DEF EndInv, Fresh, Queued
<1>6. IsFiniteSet(calls')
  BY FS_AddElement DEF Types
<1>. QED
  BY <1>2, <1>3, <1>4, <1>5, <1>6

LEMMA UnusedIsFresh ==
  ASSUME Types, Inv, NEW c \in Calls, c \notin used
  PROVE  Fresh(c)
BY NoneIsNoCall DEF Inv, UsedInv, Fresh, Queued

LEMMA CallStep ==
  ASSUME Types, Inv, NEW c \in Calls, handle_call(c)
  PROVE  Types' /\ Inv'
<1>. USE DEF handle_call
<1>1. /\ c \in Outgoing /\ c \notin Incoming /\ Fresh(c)
      /\ inputs' \in 0..MaxInputs /\ thread[None].pc = "idle"
      /\ used' = used \cup {c} /\ used' \subseteq Calls
  BY CallManagerAssumption, InputTypes, UnusedIsFresh DEF Request, Types, TypeOK
<1>2. thread \in [Threads -> ThreadState] /\ None \in Threads
  BY ThreadTypes, NoneIsNoCall DEF Types
<1>3. CASE Starts(c) /\ UNCHANGED <<thread, ended>>
  <2>1. BusyInv' /\ OfferInv' /\ UsedInv' /\ (~repeated' => EndInv') /\ IsFiniteSet(calls')
    BY <1>1, <1>3, StartsFresh DEF Offered
  <2>2. EarlyInv'
    BY <1>1, <1>3 DEF Inv, EarlyInv, Starts
  <2>3. Types'
    BY <1>1, <1>3, <2>1 DEF Types, TypeOK, Starts
  <2>. QED
    BY <2>1, <2>2, <2>3 DEF Inv
<1>4. CASE Moves(None, At("find", None, c)) /\ UNCHANGED <<active, busy, calls, ended>>
  <2>. DEFINE to == At("find", None, c)
  <2>1. to \in ThreadState /\ to.pc = "find" /\ to.target = None
    BY StepNames, Targets DEF At, ThreadState
  <2>2. Moves(None, to)
    BY <1>4
  <2>. HIDE DEF to
  <2>3. Types'
    BY <1>1, <1>2, <1>4, <2>1, <2>2, TypedMove DEF Types, TypeOK, callVars
  <2>4. Inv'
    BY <1>1, <1>2, <1>4, <2>1, <2>2, MovesOn DEF shared, Offered
  <2>. QED
    BY <2>3, <2>4
<1>5. CASE ended' = ended \cup {c} /\ UNCHANGED <<active, busy, calls, thread>>
  <2>1. Types'
    BY <1>1, <1>5 DEF Types, TypeOK
  <2>2. Inv'
    BY <1>1, <1>5, KeepsShared, KeepsEarly DEF shared, Inv
  <2>. QED
    BY <2>1, <2>2
<1>. QED
  BY <1>3, <1>4, <1>5

LEMMA OrderedTasks ==
  ASSUME Types, NEW order \in Orders(calls), tasks' = tasks \o order
  PROVE  /\ tasks' \in Seq(Calls)
         /\ \A i \in 1..Len(tasks') :
              tasks'[i] \in calls \/ \E j \in 1..Len(tasks) : tasks'[i] = tasks[j]
<1>1. Cardinality(calls) \in Nat
  BY FS_CardinalityType DEF Types
<1>2. order \in [1..Cardinality(calls) -> calls]
  BY DEF Orders
<1>3. order \in Seq(calls) /\ Len(order) = Cardinality(calls)
  BY SMT, <1>1, <1>2
<1>4. tasks \in Seq(Calls) /\ order \in Seq(Calls)
  <2>1. tasks \in Seq(Calls) /\ order \in [1..Cardinality(calls) -> Calls]
    BY <1>2 DEF Types, TypeOK
  <2>. QED
    BY ONLY SMT, <1>1, <2>1
<1>. QED
  BY SMT, <1>3, <1>4

LEMMA ResetStep ==
  ASSUME Types, Inv, handle_reset
  PROVE  Types' /\ Inv'
<1>. DEFINE to == At("clear", None, None)
<1>. USE DEF handle_reset, history
<1>1. thread \in [Threads -> ThreadState] /\ None \in Threads
  BY ThreadTypes, NoneIsNoCall DEF Types
<1>2. to \in ThreadState /\ to.pc = "clear" /\ to.target = None
  BY StepNames, Targets DEF At, ThreadState
<1>3. Moves(None, to) /\ thread[None].pc = "idle" /\ inputs' \in 0..MaxInputs
  BY InputTypes DEF Request, Types
<1>. HIDE DEF to
<1>4. /\ thread' \in [Threads -> ThreadState] /\ thread'[None] = to
      /\ \A u \in Threads : u # None => thread'[u] = thread[u]
  BY <1>1, <1>2, <1>3, Moved
<1>5. /\ tasks' \in Seq(Calls)
      /\ \A i \in 1..Len(tasks') :
           tasks'[i] \in calls \/ \E j \in 1..Len(tasks) : tasks'[i] = tasks[j]
  BY OrderedTasks
<1>6. Types'
  <2>1. phase' \in [Calls -> {"early", "accepted", "terminating"}]
    BY DEF Types, TypeOK
  <2>. QED
    BY SMT, <1>3, <1>4, <1>5, <2>1 DEF Types, TypeOK, ThreadState, Step, Target
<1>7. BusyInv'
  BY <1>3, <1>4 DEF Inv, BusyInv
<1>8. OfferInv'
  BY <1>2, <1>4, NoneIsNoCall DEF Inv, OfferInv, Offered
<1>9. UsedInv'
  BY <1>2, <1>4, <1>5 DEF Inv, UsedInv
<1>10. ~repeated' => EndInv'
  <2>1. \A x \in Calls : EndsSoon(x)' => EndsSoon(x)
    BY <1>2, <1>4 DEF EndsSoon
  <2>. QED
    BY <1>2, <1>4, <2>1 DEF Inv, EndInv, Offered
<1>11. EarlyInv'
  BY KeepsEarly
<1>. QED
  BY <1>6, <1>7, <1>8, <1>9, <1>10, <1>11 DEF Inv

-----------------------------------------------------------------------------
(* Signaling messages and the group call.                                  *)

(* What the offer collides with. *)
LEMMA Collisions ==
  ASSUME Types, NEW c \in Calls, NEW same
  PROVE  \/ Collision(c, same) \in {"GlareWinner", "Busy"}
         \/ Collision(c, same) = "None" /\ active = None
         \/ Collision(c, same) \in {"GlareLoser", "ReCall", "GlareDoubleLoser"} /\ ActiveCall
<1>1. ActiveCall => active \in Nat /\ c \in Nat
  BY CallManagerAssumption DEF ActiveCall, Types, TypeOK, Calls
<1>2. ActiveCall => glare_tiebreaker(c) \in {"GlareWinner", "GlareLoser", "GlareDoubleLoser"}
  BY SMT, <1>1 DEF glare_tiebreaker
<1>. HIDE DEF Types
<1>. QED
  BY <1>2 DEF Collision

LEMMA ReceivedOfferStep ==
  ASSUME Types, Inv, NEW c \in Calls, handle_received_offer(c)
  PROVE  Types' /\ Inv'
<1>. USE DEF handle_received_offer
<1>1. /\ c \in Incoming /\ c # None /\ inputs' \in 0..MaxInputs
      /\ thread[None].pc = "idle" /\ (c \notin used \/ c = active)
      /\ used \subseteq used' /\ c \in used' /\ used' \subseteq Calls
  BY SMT, NoneIsNoCall, InputTypes DEF Request, Types, TypeOK
<1>2. thread \in [Threads -> ThreadState] /\ None \in Threads
  BY ThreadTypes, NoneIsNoCall DEF Types
<1>3. \/ offer' = None /\ UNCHANGED thread
      \/ /\ offer' = c
         /\ \/ active = None /\ Moves(None, At("start", None, c))
            \/ /\ ActiveCall
               /\ \E p \in {"replace", "reject"} : Moves(None, At(p, active, c))
  <2>1. PICK same \in BOOLEAN :
          LET collision == Collision(c, same)
          IN /\ offer' = IF collision \in {"GlareWinner", "Busy"} THEN None ELSE c
             /\ CASE collision \in {"GlareWinner", "Busy"} -> UNCHANGED thread
                  [] collision = "None" -> Moves(None, At("start", None, c))
                  [] collision \in {"GlareLoser", "ReCall"} ->
                       Moves(None, At("replace", active, c))
                  [] collision = "GlareDoubleLoser" ->
                       Moves(None, At("reject", active, c))
    OBVIOUS
  <2>2. CASE Collision(c, same) \in {"GlareWinner", "Busy"}
    BY <2>1, <2>2
  <2>3. CASE Collision(c, same) = "None" /\ active = None
    BY <2>1, <2>3
  <2>4. CASE Collision(c, same) \in {"GlareLoser", "ReCall"} /\ ActiveCall
    BY <2>1, <2>4
  <2>5. CASE Collision(c, same) = "GlareDoubleLoser" /\ ActiveCall
    BY <2>1, <2>5
  <2>. QED
    BY <2>2, <2>3, <2>4, <2>5, Collisions
<1>4. CASE offer' = None /\ UNCHANGED thread
  <2>1. Types'
    BY <1>1, <1>4 DEF Types, TypeOK, callVars
  <2>2. BusyInv' /\ UsedInv' /\ OfferInv'
    BY <1>1, <1>4 DEF Inv, BusyInv, OfferInv, UsedInv, callVars, Offered
  <2>3. ~repeated' => EndInv'
    BY <1>1, <1>4 DEF Inv, EndInv, EndsSoon, Queued, Offered, callVars
  <2>4. EarlyInv'
    BY KeepsEarly
  <2>. QED
    BY <2>1, <2>2, <2>3, <2>4 DEF Inv
<1>5. ASSUME offer' = c,
             NEW p \in Offered, NEW target \in calls \cup {None},
             p # "start" => target # None, active \in {None, target},
             Moves(None, At(p, target, c))
      PROVE  Types' /\ Inv'
  <2>. DEFINE to == At(p, target, c)
  <2>1. to \in ThreadState /\ to.pc = p /\ to.target = target
    <3>1. p \in Step /\ target \in Target
      BY DEF Offered, Step, Target, Types, TypeOK
    <3>. QED
      BY <3>1, Targets DEF At, ThreadState
  <2>2. Moves(None, to)
    BY <1>5
  <2>. HIDE DEF to
  <2>3. /\ thread' \in [Threads -> ThreadState] /\ thread'[None] = to
        /\ \A u \in Threads : u # None => thread'[u] = thread[u]
    BY <1>2, <2>1, <2>2, Moved
  <2>4. Types'
    BY <1>1, <1>5, <2>3 DEF Types, TypeOK, ThreadState, Step, Target, callVars
  <2>5. BusyInv'
    BY <1>1, <2>3 DEF Inv, BusyInv
  <2>6. OfferInv'
    BY <1>1, <1>5, <2>1, <2>3, NoneIsNoCall DEF Inv, OfferInv, Offered
  <2>7. UsedInv'
    BY <1>1, <2>1, <2>3 DEF Inv, UsedInv, callVars
  <2>8. ~repeated' => EndInv'
    <3>. SUFFICES ASSUME ~repeated PROVE EndInv'
      OBVIOUS
    <3>1. EndInv
      BY DEF Inv
    <3>2. \A x \in Calls : EndsSoon(x)' => EndsSoon(x)
      BY <2>1, <2>3 DEF EndsSoon, Offered
    <3>3. ~(active # None /\ Queued(active))
      BY <1>1, <3>1 DEF EndInv
    <3>4. c \in calls \/ Fresh(c)'
      <4>1. CASE c = active
        BY <1>1, <3>1, <4>1 DEF EndInv
      <4>2. CASE c \notin used
        <5>1. Fresh(c) /\ c \notin calls
          BY <4>2, UnusedIsFresh DEF Fresh
        <5>2. target # c
          BY <1>1, <5>1
        <5>. QED
          BY <2>1, <2>3, <5>1, <5>2 DEF Fresh, Queued, callVars
      <4>. QED
        BY <1>1, <4>1, <4>2
    <3>. QED
      BY <1>5, <3>1, <3>2, <3>3, <3>4 DEF EndInv, Queued, callVars
  <2>9. EarlyInv'
    BY KeepsEarly
  <2>. QED
    BY <2>4, <2>5, <2>6, <2>7, <2>8, <2>9 DEF Inv
<1>6. CASE offer' = c /\ active = None /\ Moves(None, At("start", None, c))
  BY <1>5, <1>6 DEF Offered
<1>7. CASE offer' = c /\ ActiveCall
           /\ \E p \in {"replace", "reject"} : Moves(None, At(p, active, c))
  <2>1. PICK p \in {"replace", "reject"} : Moves(None, At(p, active, c))
    BY <1>7
  <2>. QED
    BY <1>5, <1>7, <2>1 DEF Offered, ActiveCall
<1>. QED
  BY <1>3, <1>4, <1>6, <1>7

LEMMA OfferEndsStep ==
  ASSUME Types, Inv, OfferEndsActive
  PROVE  Types' /\ Inv'
<1>. DEFINE c == thread[None].target
<1>. USE DEF OfferEndsActive, terminate_call
<1>1. /\ thread \in [Threads -> ThreadState] /\ thread[None] \in ThreadState
      /\ tasks \in Seq(Calls) /\ None \in Threads
      /\ offer \in Incoming /\ offer \in Calls /\ c \in Calls
  <2>1. thread \in [Threads -> ThreadState] /\ None \in Threads
    BY ThreadTypes, NoneIsNoCall DEF Types
  <2>2. c \in Calls
    BY <2>1, StateFields DEF Inv, OfferInv, Target
  <2>3. offer \in Incoming
    BY DEF Inv, OfferInv, Offered, Types, TypeOK
  <2>. QED
    BY <2>1, <2>2, <2>3 DEF Types, TypeOK, Calls
<1>2. PICK to \in {Idle, At("start", None, offer)} :
        /\ Moves(None, to)
        /\ IF to = Idle THEN offer' = None ELSE UNCHANGED offer
  <2>1. Idle # At("start", None, offer)
    BY DEF Idle, At
  <2>. QED
    BY <2>1
<1>3. to \in ThreadState /\ to.pc \in {"idle", "start"} /\ to.target = None
      /\ (to.pc = "start" => UNCHANGED offer)
  <2>1. CASE to = Idle
    BY <2>1, IdleState
  <2>2. CASE to # Idle
    <3>1. to = At("start", None, offer) /\ UNCHANGED offer /\ offer \in Target
      BY <1>1, <1>2, <2>2, Targets
    <3>. QED
      BY <3>1, StepNames, Targets DEF At, ThreadState
  <2>. QED
    BY <2>1, <2>2
<1>4. /\ thread' \in [Threads -> ThreadState] /\ thread'[None] = to
      /\ \A u \in Threads : u # None => thread'[u] = thread[u]
  BY <1>1, <1>2, <1>3, Moved
<1>5. /\ tasks' \in Seq(Calls)
      /\ \A i \in 1..Len(tasks') : tasks'[i] = c \/ \E j \in 1..Len(tasks) : tasks'[i] = tasks[j]
  BY <1>1, AppendedTask
<1>6. \A x : Queued(x)' => Queued(x) \/ x = c
  BY <1>5 DEF Queued
<1>7. Types'
  <2>1. phase' \in [Calls -> {"early", "accepted", "terminating"}] /\ ended' \subseteq Calls
    BY <1>1 DEF Types, TypeOK
  <2>2. offer' \in Incoming \cup {None}
    BY <1>1, <1>2
  <2>. QED
    BY <1>4, <1>5, <2>1, <2>2 DEF Types, TypeOK, ThreadState, Step, Target
<1>8. BusyInv'
  BY DEF BusyInv
<1>9. OfferInv'
  BY <1>1, <1>3, <1>4, NoneIsNoCall DEF Inv, OfferInv, Offered
<1>10. UsedInv'
  <2>1. used' = used /\ c \in used /\ offer' \in used \cup {None}
    BY <1>1, <1>2, NoneIsNoCall DEF Inv, UsedInv
  <2>2. \A t \in Threads : thread'[t].target \in used' \cup {None}
    BY <1>3, <1>4, <2>1 DEF Inv, UsedInv
  <2>3. \A i \in 1..Len(tasks') : tasks'[i] \in used'
    BY <1>5, <2>1 DEF Inv, UsedInv
  <2>. QED
    BY <2>1, <2>2, <2>3 DEF Inv, UsedInv
<1>11. ~repeated' => EndInv'
  <2>. SUFFICES ASSUME ~repeated PROVE EndInv'
    OBVIOUS
  <2>1. EndInv /\ active' = None
    BY DEF Inv
  <2>2. (thread[None].pc \in Offered => offer \in calls \/ Fresh(offer))'
    <3>. SUFFICES ASSUME thread'[None].pc \in Offered, offer \notin calls, UNCHANGED offer
                  PROVE  Fresh(offer)'
      BY <1>3, <1>4 DEF Offered
    <3>1. Fresh(offer) /\ offer # None
      BY <2>1, <1>1, NoneIsNoCall DEF EndInv, Offered
    <3>2. ~Queued(offer)'
      BY <1>1, <1>6, <3>1 DEF Fresh
    <3>. QED
      BY <1>3, <1>4, <2>1, <3>1, <3>2 DEF Fresh
  <2>. QED
    BY <2>1, <2>2, NoneIsNoCall DEF EndInv
<1>12. EarlyInv'
  BY KeepsEarly
<1>. QED
  BY <1>7, <1>8, <1>9, <1>10, <1>11, <1>12 DEF Inv

LEMMA OfferStartsStep ==
  ASSUME Types, Inv, OfferStarts
  PROVE  Types' /\ Inv'
<1>. USE DEF OfferStarts
<1>1. thread \in [Threads -> ThreadState] /\ None \in Threads
  BY ThreadTypes, NoneIsNoCall DEF Types
<1>2. offer \in Incoming /\ offer \in Calls /\ thread[None].pc \in Offered
  BY DEF Inv, OfferInv, Offered, Types, TypeOK, Calls
<1>3. /\ thread' \in [Threads -> ThreadState] /\ thread'[None] = Idle
      /\ \A u \in Threads : u # None => thread'[u] = thread[u]
  BY <1>1, Moved, IdleState
<1>4. repeated => repeated'
  OBVIOUS
<1>5. ~repeated => Fresh(offer) \/ repeated'
  BY <1>2 DEF Inv, EndInv
<1>6. offer \in used
  BY <1>2, NoneIsNoCall DEF Inv, UsedInv
<1>7. BusyInv' /\ OfferInv' /\ UsedInv' /\ (~repeated' => EndInv') /\ IsFiniteSet(calls')
  <2>1. \A t \in Threads : thread'[t] = thread[t] \/ (t = None /\ thread'[t] = Idle)
    BY <1>3
  <2>2. thread'[None].pc \notin Offered
    BY <1>3, IdleState DEF Offered
  <2>3. /\ Starts(offer) /\ UNCHANGED <<tasks, joined>> /\ used' = used /\ offer' = None
    OBVIOUS
  <2>4. repeated' \/ UNCHANGED repeated
    <3>1. repeated \in BOOLEAN /\ repeated' = (repeated \/ offer \in calls)
      BY DEF Types, TypeOK
    <3>. QED
      BY ONLY Zenon, <3>1
  <2>. QED
    BY <1>2, <1>5, <1>6, <2>1, <2>2, <2>3, <2>4, StartsFresh
<1>8. EarlyInv'
  BY <1>2 DEF Inv, EarlyInv, Starts
<1>9. Types'
  <2>1. NoMessages \in Pending /\ pending' \in Pending
    BY DEF NoMessages, Pending
  <2>2. hungUp' \subseteq Calls /\ early' \in Calls \cup {None}
    BY <1>2 DEF Types, TypeOK
  <2>3. active' \in Calls /\ busy' \in BOOLEAN /\ calls' \subseteq Calls /\ repeated' \in BOOLEAN
    BY <1>2 DEF Starts, Types, TypeOK
  <2>. QED
    BY <1>3, <1>7, <2>1, <2>2, <2>3 DEF Types, TypeOK, ThreadState, Step, Target, Pending
<1>. QED
  BY <1>7, <1>8, <1>9 DEF Inv

LEMMA ReceivedIceStep ==
  ASSUME Types, Inv, NEW c \in Calls, handle_received_ice(c)
  PROVE  Types' /\ Inv'
<1>. USE DEF handle_received_ice, save_ice_candidates
<1>1. pending' \in Pending /\ inputs' \in 0..MaxInputs /\ early' \in Calls \cup {None}
  BY InputTypes DEF Request, Types, TypeOK, Pending
<1>2. Types'
  BY <1>1 DEF Types, TypeOK, Pending, callVars
<1>3. EarlyInv'
  BY NoneIsNoCall DEF Inv, EarlyInv
<1>. QED
  BY <1>2, <1>3, KeepsShared DEF shared, callVars, Inv

LEMMA ReceivedHangupStep ==
  ASSUME Types, Inv, NEW c \in Calls, handle_received_hangup(c)
  PROVE  Types' /\ Inv'
<1>. USE DEF handle_received_hangup, save_hangup
<1>1. inputs' \in 0..MaxInputs
  BY InputTypes DEF Request, Types
<1>2. pending' \in Pending /\ early' \in Calls \cup {None} /\ hungUp' \subseteq Calls
  BY SMT DEF Types, TypeOK, Pending
<1>3. Types'
  BY <1>1, <1>2 DEF Types, TypeOK, Pending, callVars
<1>4. EarlyInv'
  <2>1. CASE hungUp' = hungUp \cup {c} /\ UNCHANGED <<pending, early>>
    BY <2>1 DEF Inv, EarlyInv
  <2>2. CASE save_hangup(c) /\ early' = (IF c \in used THEN None ELSE c) /\ UNCHANGED hungUp
    BY <2>2, NoneIsNoCall DEF EarlyInv, Inv, UsedInv
  <2>. QED
    BY <2>1, <2>2
<1>. QED
  BY <1>3, <1>4, KeepsShared DEF shared, callVars, Inv

(* joined and busy change together. *)
LEMMA GroupCallStep ==
  ASSUME Types, Inv, take_busy \/ leave_inner
  PROVE  Types' /\ Inv'
<1>. USE DEF take_busy, leave_inner, callVars, history
<1>1. inputs' \in 0..MaxInputs
  BY InputTypes DEF Types, TypeOK
<1>2. /\ UNCHANGED <<active, calls, phase, known, pending, thread, offer, tasks, used, repeated,
                     hungUp, early, ended>>
      /\ joined' \in BOOLEAN /\ busy' \in BOOLEAN /\ (busy' => joined')
  OBVIOUS
<1>3. Types'
  BY <1>1, <1>2 DEF Types, TypeOK
<1>4. BusyInv' /\ OfferInv' /\ UsedInv'
  BY <1>2 DEF Inv, BusyInv, OfferInv, UsedInv
<1>5. ~repeated' => EndInv'
  BY <1>2 DEF Inv, EndInv, EndsSoon, Queued, Fresh
<1>6. EarlyInv'
  BY <1>2, KeepsEarly
<1>. QED
  BY <1>3, <1>4, <1>5, <1>6 DEF Inv

-----------------------------------------------------------------------------
LEMMA Initially == Init => Types /\ Inv
<1>. SUFFICES ASSUME Init PROVE Types /\ Inv
  OBVIOUS
<1>. USE DEF Init
<1>1. Types
  <2>1. thread \in [Threads -> ThreadState] /\ NoMessages \in Pending
    BY IdleState DEF NoMessages, Pending
  <2>2. tasks \in Seq(Calls) /\ IsFiniteSet(calls) /\ inputs \in 0..MaxInputs
    BY SMT, FS_EmptySet, CallManagerAssumption
  <2>. QED
    BY <2>1, <2>2 DEF Types, TypeOK, ThreadState, Step, Target, Pending
<1>2. \A t \in Threads : thread[t].pc = "idle" /\ thread[t].target = None
  BY IdleState
<1>. QED
  BY SMT, <1>1, <1>2, NoneIsNoCall DEF Inv, BusyInv, OfferInv, UsedInv, EndInv, EarlyInv, EndsSoon,
     Queued, Offered

LEMMA NextKeeps ==
  ASSUME Types, Inv, [Next]_vars
  PROVE  Types' /\ Inv'
<1>1. CASE Next
  <2>1. \A t \in Threads : Ending(t) => Types' /\ Inv'
    BY FindsActiveStep, ClearStep, ReleaseStep, ConcludesStep DEF Ending
  <2>2. Offering => Types' /\ Inv'
    BY OfferEndsStep, OfferStartsStep DEF Offering
  <2>. QED
    BY <1>1, <2>1, <2>2, DropStep, CallEndsStep, AdvancesStep, CallStep, SendFailureStep,
       ReceivedOfferStep, ReceivedIceStep, ReceivedHangupStep, HangupStep, ResetStep,
       GroupCallStep DEF Next
<1>2. CASE UNCHANGED vars
  <2>1. Types'
    BY SMT, <1>2 DEF Types, TypeOK, vars, callVars, history
  <2>. QED
    BY <1>2, <2>1, KeepsShared, KeepsEarly DEF Inv, vars, callVars, history, shared
<1>. QED
  BY <1>1, <1>2

(* The invariant holds in every reachable state, whatever calls there are. *)
THEOREM Invariance == Spec => [](Types /\ Inv)
<1>1. Init => Types /\ Inv
  BY Initially
<1>2. Types /\ Inv /\ [Next]_vars => (Types /\ Inv)'
  BY NextKeeps
<1>. QED
  BY <1>1, <1>2, PTL DEF Spec

(* The active call is in the map, however the threads that end calls, the  *)
(* tasks that drop them and crossing offers interleave                     *)
(* (terminate_active_call, terminate_and_drop_call, received_offer), as    *)
(* long as no offer was started a second time.                             *)
THEOREM ActiveIsMapped == Spec => []ActiveExists
<1>1. Types /\ Inv => ActiveExists
  BY DEF Types, Inv, EndInv, ActiveExists
<1>. QED
  BY <1>1, Invariance, PTL

(* Whoever clears the active call releases busy: between the two mutexes   *)
(* no other thread can lose it (terminate_active_call, take_busy).         *)
THEOREM BusyIsReleased == Spec => []NotStuckBusy
<1>1. Types /\ Inv => NotStuckBusy
  BY DEF Inv, BusyInv, NotStuckBusy
<1>. QED
  BY <1>1, Invariance, PTL

(* A hangup that came before its offer reaches the call the offer starts   *)
(* (save_hangup, OfferStarts for handle_received_offer), unless another    *)
(* call's messages displaced it.                                           *)
THEOREM EarlyHangupApplied == Spec => []EarlyHangupKept
<1>1. Types /\ Inv => EarlyHangupKept
  BY DEF Inv, EarlyInv, EarlyHangupKept
<1>. QED
  BY <1>1, Invariance, PTL
=============================================================================
