--------------------------- MODULE ApplicationProofs ---------------------------
(***************************************************************************)
(* Safety of Application for any set of keys, of exit statuses, and any    *)
(* bound on the queue.                                                     *)
(***************************************************************************)
EXTENDS Application, SequenceTheorems, TLAPS

(* What TypeOK needs to be inductive: a key that is about to be pushed has *)
(* its room, which only the VM's thread can add to; and there is no thread *)
(* that the one which is created would replace.                            *)
PushHasRoom == main = "push" => Len(queue) < QueueBound

NoThreadYet == main = "start" => vm = "none"

(* What SensedKeyIsNext needs: the key that was told is still the first,   *)
(* and nobody waits.                                                       *)
SensedIsFirst ==
  Sensed => queue # <<>> /\ Head(queue) = answer.key /\ vm # "wait"

AppInv == TypeOK /\ PushHasRoom /\ NoThreadYet /\ SensedIsFirst /\ NothingRunsOn
-----------------------------------------------------------------------------
(* The states that the actions of the main thread, of the program, and of  *)
(* the code it calls lead to are typed.                                    *)
LEMMA MainTyped ==
  ASSUME TypeOK, PushHasRoom, NoThreadYet, MainStep \/ User
  PROVE  TypeOK' /\ PushHasRoom' /\ NoThreadYet'
<1> USE ApplicationAssumption DEF TypeOK, PushHasRoom, NoThreadYet, keyVars, endVars
<1>1. CASE Start
  <2>1. vm' \in {"none", "program"}
    BY <1>1, Zenon DEF Start
  <2>2. mode' \in {"none", "boot", "run"}
    BY <1>1, Zenon DEF Start
  <2>3. /\ main = "start" /\ main' = "enter"
        /\ UNCHANGED <<queue, keyMutex, answer, gdk, cancelled, vmStatus, exit>>
    BY <1>1 DEF Start
  <2>4. QED BY <2>1, <2>2, <2>3
<1>2. CASE EnterGdk    BY <1>2 DEF EnterGdk
<1>3. ASSUME NEW k \in Key, Push(k)
      PROVE  TypeOK' /\ PushHasRoom' /\ NoThreadYet'
  <2>1. queue' \in Seq(Key) /\ Len(queue') = Len(queue) + 1
    BY <1>3, AppendProperties DEF Push
  <2>2. QED BY <1>3, <2>1 DEF Push
<1>4. CASE LeaveGdk    BY <1>4 DEF LeaveGdk
<1>5. CASE Cancel      BY <1>5 DEF Cancel
<1>6. CASE Join        BY <1>6 DEF Join
<1>7. CASE Destroy     BY <1>7 DEF Destroy
<1>8. CASE Poll        BY <1>8 DEF Poll
<1>9. CASE KeyPress    BY <1>9 DEF KeyPress
<1>10. CASE Quit       BY <1>10 DEF Quit
<1>11. QED
  BY <1>1, <1>2, <1>3, <1>4, <1>5, <1>6, <1>7, <1>8, <1>9, <1>10
  DEF MainStep, User, PushKey

LEMMA VmTyped ==
  ASSUME TypeOK, PushHasRoom, NoThreadYet, VmStep \/ SpuriousWakeup \/ Program
  PROVE  TypeOK' /\ PushHasRoom' /\ NoThreadYet'
<1> USE ApplicationAssumption DEF TypeOK, PushHasRoom, NoThreadYet, keyVars, endVars, Answer
<1>1. CASE Sense                  BY <1>1 DEF Sense
<1>2. CASE Yield                  BY <1>2 DEF Yield
<1>3. CASE PeekKey
  <2>1. queue # <<>> => Head(queue) \in Key
    BY HeadTailProperties
  <2>2. QED BY <1>3, <2>1 DEF PeekKey
<1>4. CASE GetKey
  <2>1. queue # <<>> =>
          /\ Head(queue) \in Key
          /\ Tail(queue) \in Seq(Key)
          /\ Len(Tail(queue)) = Len(queue) - 1
    BY HeadTailProperties
  <2>2. QED BY <1>4, <2>1 DEF GetKey
<1>5. CASE CancelledWhileWaiting  BY <1>5 DEF CancelledWhileWaiting
<1>6. CASE SetStatusText          BY <1>6 DEF SetStatusText
<1>7. CASE StatusTextSet          BY <1>7 DEF StatusTextSet
<1>8. CASE SpuriousWakeup         BY <1>8 DEF SpuriousWakeup
<1>9. CASE CancelledAtCall        BY <1>9 DEF CancelledAtCall
<1>10. CASE CallB_KEYSNS          BY <1>10 DEF CallB_KEYSNS
<1>11. CASE CallB_KEYINP          BY <1>11 DEF CallB_KEYINP
<1>12. ASSUME NEW s \in Status, ProgramExit(s)
       PROVE  TypeOK' /\ PushHasRoom' /\ NoThreadYet'
  BY <1>12 DEF ProgramExit
<1>13. CASE ProgramFails          BY <1>13 DEF ProgramFails
<1>14. CASE BootFault             BY <1>14 DEF BootFault
<1>15. QED
  BY <1>1, <1>2, <1>3, <1>4, <1>5, <1>6, <1>7, <1>8, <1>9, <1>10, <1>11, <1>12,
     <1>13, <1>14
  DEF VmStep, Program
-----------------------------------------------------------------------------
(* A key that was told stays the first, and no wait begins: pushes come    *)
(* behind it, and only _B_KEYINP takes it, which tells it.                 *)
LEMMA SensedStep ==
  ASSUME TypeOK, SensedIsFirst, [Next]_vars
  PROVE  /\ SensedIsFirst'
         /\ Sensed => answer'.key = answer.key /\ vm' # "wait"
<1> USE DEF SensedIsFirst, Sensed, keyVars, endVars
<1>1. CASE UNCHANGED vars
  BY <1>1 DEF vars
<1>2. CASE PushKey
  <2>1. PICK k \in Key : Push(k)
    BY <1>2 DEF PushKey
  <2>2. queue # <<>> => Append(queue, k) # <<>> /\ Head(Append(queue, k)) = Head(queue)
    BY AppendProperties, HeadTailProperties, SMT DEF TypeOK
  <2>3. QED BY <2>1, <2>2 DEF Push
<1>3. CASE PeekKey
  BY <1>3 DEF PeekKey, Answer
<1>4. CASE GetKey
  BY <1>4 DEF GetKey, Answer
<1>5. CASE Start \/ EnterGdk \/ LeaveGdk \/ Cancel \/ Join \/ Destroy \/ User
  BY <1>5 DEF Start, EnterGdk, LeaveGdk, Cancel, Join, Destroy, User, Poll, KeyPress,
              Quit, TypeOK
<1>6. CASE Sense \/ Yield \/ CancelledWhileWaiting \/ SetStatusText \/ StatusTextSet
  BY <1>6 DEF Sense, Yield, CancelledWhileWaiting, SetStatusText, StatusTextSet
<1>7. CASE SpuriousWakeup \/ Program
  BY <1>7 DEF SpuriousWakeup, Program, CancelledAtCall, CallB_KEYSNS, CallB_KEYINP,
              ProgramExit, ProgramFails, BootFault
<1> HIDE DEF SensedIsFirst, Sensed, keyVars, endVars
<1>8. CASE MainStep
  BY <1>8, <1>2, <1>5 DEF MainStep
<1>9. CASE VmStep
  BY <1>9, <1>3, <1>4, <1>6 DEF VmStep
<1>10. QED
  BY <1>1, <1>5, <1>7, <1>8, <1>9 DEF Next, Terminated

(* When the threads have been joined, none runs, and the status stays.     *)
LEMMA JoinedStep ==
  ASSUME TypeOK, NothingRunsOn, [Next]_vars
  PROVE  NothingRunsOn'
<1> USE DEF NothingRunsOn, keyVars, endVars
<1>1. CASE UNCHANGED vars
  BY <1>1 DEF vars
<1>2. CASE MainStep \/ User
  BY <1>2 DEF MainStep, User, Start, EnterGdk, PushKey, Push, LeaveGdk, Cancel, Join,
              Destroy, Poll, KeyPress, Quit
<1>3. CASE VmStep \/ SpuriousWakeup \/ Program
  <2>1. vm \notin {"none", "ended"}
    BY <1>3 DEF VmStep, Sense, Yield, PeekKey, GetKey, CancelledWhileWaiting,
                SetStatusText, StatusTextSet, SpuriousWakeup, Program, CancelledAtCall,
                CallB_KEYSNS, CallB_KEYINP, ProgramExit, ProgramFails, BootFault
  <2>2. main' = main
    BY <1>3 DEF VmStep, Sense, Yield, PeekKey, GetKey, CancelledWhileWaiting,
                SetStatusText, StatusTextSet, SpuriousWakeup, Program, CancelledAtCall,
                CallB_KEYSNS, CallB_KEYINP, ProgramExit, ProgramFails, BootFault
  <2>3. QED BY <2>1, <2>2
<1>4. QED BY <1>1, <1>2, <1>3 DEF Next, Terminated
-----------------------------------------------------------------------------
LEMMA InitInv == Init => AppInv
<1> SUFFICES ASSUME Init PROVE AppInv
  OBVIOUS
<1>1. answer.call = "none" /\ answer \in [call : {"none", "B_KEYSNS", "B_KEYINP"}, key : Key \cup {NoKey}]
  BY DEF Init, Answer
<1>2. queue \in Seq(Key) /\ Len(queue) <= QueueBound
  BY ApplicationAssumption DEF Init
<1>3. TypeOK
  <2>1. /\ main = "start" /\ vm = "none" /\ mode = "none" /\ cancelled = FALSE
        /\ keyMutex = "free" /\ gdk = "free" /\ vmStatus = 0 /\ exit = 0
    BY DEF Init
  <2>2. /\ (keyMutex = "main") = (main = "push")
        /\ (gdk = "main") = (main \in {"event", "push", "quit"})
        /\ (gdk = "vm") = (vm = "text")
    BY <2>1
  <2>3. vmStatus \in Status \cup {0} /\ exit \in Status \cup {0}
    BY <2>1
  <2>4. answer.call = "B_KEYINP" => answer.key \in Key
    BY <1>1
  <2>5. QED BY <1>1, <1>2, <2>1, <2>2, <2>3, <2>4 DEF TypeOK
<1>4. SensedIsFirst
  BY <1>1 DEF SensedIsFirst, Sensed
<1>5. QED
  BY <1>3, <1>4 DEF Init, AppInv, PushHasRoom, NoThreadYet, NothingRunsOn

LEMMA StepInv == AppInv /\ [Next]_vars => AppInv'
<1> SUFFICES ASSUME AppInv, [Next]_vars PROVE AppInv'
  OBVIOUS
<1>1. CASE UNCHANGED vars
  BY <1>1 DEF vars, AppInv, TypeOK, PushHasRoom, NoThreadYet, SensedIsFirst, Sensed, NothingRunsOn
<1>2. CASE Next
  <2>1. TypeOK' /\ PushHasRoom' /\ NoThreadYet'
    BY <1>1, <1>2, MainTyped, VmTyped DEF AppInv, Next, Terminated, vars, TypeOK, PushHasRoom, NoThreadYet
  <2>2. SensedIsFirst' /\ NothingRunsOn'
    BY SensedStep, JoinedStep DEF AppInv
  <2>3. QED BY <2>1, <2>2 DEF AppInv
<1>3. QED BY <1>1, <1>2

(* The invariant of the two threads, for any keys, statuses and bound.     *)
THEOREM AppInvariant == Spec => []AppInv
BY InitInv, StepInv, PTL DEF Spec

(* Types, and that who holds a lock is where only its holder is; of the    *)
(* two locks only the key mutex may outlive its holder, after a cancelled  *)
(* wait.                                                                   *)
THEOREM AppTypeCorrect == Spec => []TypeOK
<1>1. AppInv => TypeOK
  BY DEF AppInv
<1>2. QED BY <1>1, AppInvariant, PTL

(* Nothing that both threads use is destroyed while the VM's thread runs,  *)
(* and main returns the program's status.                                  *)
THEOREM JoinedBeforeDestroyed == Spec => []NothingRunsOn
<1>1. AppInv => NothingRunsOn
  BY DEF AppInv
<1>2. QED BY <1>1, AppInvariant, PTL

(* The key that _B_KEYSNS told of is the next one that the program gets.   *)
THEOREM SensedKeyComesNext == Spec => SensedKeyIsNext
<1>1. AppInv /\ [Next]_vars => [Sensed => answer'.key = answer.key /\ vm' # "wait"]_vars
  BY SensedStep DEF AppInv
<1>2. QED BY <1>1, AppInvariant, PTL DEF Spec, SensedKeyIsNext
================================================================================
