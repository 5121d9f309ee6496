------------------------------ MODULE Application ------------------------------
(***************************************************************************)
(* The program's two threads (programs/main.cc): the main thread, which    *)
(* runs GTK's main loop, and the thread of the VM; the key queue between   *)
(* them (libvx68k/machine.cc); GDK's lock; and how they end, when the      *)
(* window is closed, the Exit item is chosen, or the VM's program stops.   *)
(*                                                                         *)
(* GTK, GDK and the POSIX threads are external.  With --one-thread there   *)
(* is no second thread, and none of this.                                  *)
(***************************************************************************)
EXTENDS Integers, Sequences

CONSTANTS
  Key,          \* the codes of keys that are pressed
  NoKey,        \* 0, by which peek_key says that there is none
  Status,       \* exit statuses of programs
  QueueBound    \* bound: keys that may be waiting when one is pressed

ASSUME ApplicationAssumption ==
  /\ NoKey \notin Key
  /\ QueueBound \in Nat \ {0}
  /\ Status \subseteq Nat

VARIABLES
  main,        \* where the main thread is
  vm,          \* where the VM's thread is
  mode,        \* what the VM's thread was created for
  queue,       \* key_queue
  keyMutex,    \* who holds key_queue_mutex
  gdk,         \* who holds GDK's lock
  cancelled,   \* the VM's thread has been sent a cancellation
  answer,      \* what the last keyboard call told the program
  vmStatus,    \* vm_status
  exit         \* what main returned

vars == <<main, vm, mode, queue, keyMutex, gdk, cancelled, answer, vmStatus, exit>>

keyVars  == <<queue, keyMutex, answer>>
endVars  == <<cancelled, vmStatus, exit>>

Answer(call, key) == [call |-> call, key |-> key]
-----------------------------------------------------------------------------
(* The window is shown, and there is no thread yet.                        *)
Init ==
  /\ main = "start" /\ vm = "none" /\ mode = "none"
  /\ queue = <<>> /\ keyMutex = "free" /\ gdk = "free"
  /\ cancelled = FALSE
  /\ answer = Answer("none", NoKey)
  /\ vmStatus = 0 /\ exit = 0

(* boot and run create the thread; with neither a floppy to boot from nor  *)
(* a program there is just the window.                                     *)
Start ==
  /\ main = "start"
  /\ main' = "enter"
  /\ mode' \in {"none", "boot", "run"}
  /\ vm' = IF mode' = "none" THEN "none" ELSE "program"
  /\ UNCHANGED <<keyVars, gdk, endVars>>

(* gdk_threads_enter before gtk_main, and again whenever its poll returns. *)
EnterGdk ==
  /\ main \in {"enter", "poll"} /\ gdk = "free"
  /\ gdk' = "main" /\ main' = "event"
  /\ UNCHANGED <<vm, mode, keyVars, endVars>>

(* gtk_main polls, without the lock.                                       *)
Poll ==
  /\ main = "event"
  /\ gdk' = "free" /\ main' = "poll"
  /\ UNCHANGED <<vm, mode, keyVars, endVars>>

(* A key press: queue_key takes the mutex,                                 *)
KeyPress ==
  /\ main = "event" /\ keyMutex = "free"
  /\ Len(queue) < QueueBound
  /\ keyMutex' = "main" /\ main' = "push"
  /\ UNCHANGED <<vm, mode, queue, gdk, answer, endVars>>

(* Wrong: wakes nobody.                                                    *)
PushUnsignalled(k) ==
  /\ main = "push"
  /\ queue' = Append(queue, k)
  /\ UNCHANGED vm
  /\ keyMutex' = "free" /\ main' = "event"
  /\ UNCHANGED <<mode, gdk, answer, endVars>>

(* Wrong: the newest key first.                                            *)
PushInFront(k) ==
  /\ main = "push"
  /\ queue' = <<k>> \o queue
  /\ vm' = IF vm = "wait" THEN "get" ELSE vm
  /\ keyMutex' = "free" /\ main' = "event"
  /\ UNCHANGED <<mode, gdk, answer, endVars>>

(* pushes the key, signals the condition, and returns.                     *)
Push(k) ==
  /\ main = "push"
  /\ queue' = Append(queue, k)
  /\ vm' = IF vm = "wait" THEN "get" ELSE vm
  /\ keyMutex' = "free" /\ main' = "event"
  /\ UNCHANGED <<mode, gdk, answer, endVars>>

(* The window's destruction and the Exit item end the main loop, which     *)
(* returns with the lock.                                                  *)
Quit ==
  /\ main = "event"
  /\ main' = "quit"
  /\ UNCHANGED <<vm, mode, gdk, keyVars, endVars>>

LeaveGdk ==
  /\ main = "quit"
  /\ gdk' = "free" /\ main' = "cancel"
  /\ UNCHANGED <<vm, mode, keyVars, endVars>>

(* Wrong: only waits.                                                      *)
CancelOmitted ==
  /\ main = "cancel"
  /\ main' = "join"
  /\ UNCHANGED <<vm, mode, gdk, keyVars, endVars>>

(* join, if there is a thread: pthread_cancel, then pthread_join, and then *)
(* the status.                                                             *)
Cancel ==
  /\ main = "cancel"
  /\ main' = "join"
  /\ cancelled' = (vm # "none")
  /\ UNCHANGED <<vm, mode, gdk, keyVars, vmStatus, exit>>

(* Wrong: does not wait.                                                   *)
JoinAtOnce ==
  /\ main = "join"
  /\ exit' = vmStatus
  /\ main' = "destroy"
  /\ UNCHANGED <<vm, mode, gdk, keyVars, cancelled, vmStatus>>

Join ==
  /\ main = "join" /\ vm \in {"none", "ended"}
  /\ exit' = vmStatus
  /\ main' = "destroy"
  /\ UNCHANGED <<vm, mode, gdk, keyVars, cancelled, vmStatus>>

(* The window's, the console's and the machine's destructors; the          *)
(* console's enters GDK and leaves it.                                     *)
Destroy ==
  /\ main = "destroy" /\ gdk = "free"
  /\ main' = "done"
  /\ UNCHANGED <<vm, mode, gdk, keyVars, endVars>>
-----------------------------------------------------------------------------
(* iocs_trap, by which the program makes its IOCS calls, first tests for a *)
(* cancellation; so do the host's calls that the DOS calls make.           *)
CancelledAtCall ==
  /\ vm = "program" /\ cancelled
  /\ vm' = "ended"
  /\ UNCHANGED <<main, mode, gdk, keyVars, endVars>>

CallB_KEYSNS ==
  /\ vm = "program" /\ ~cancelled
  /\ vm' = "sense"
  /\ UNCHANGED <<main, mode, gdk, keyVars, endVars>>

CallB_KEYINP ==
  /\ vm = "program" /\ ~cancelled
  /\ vm' = "get"
  /\ UNCHANGED <<main, mode, gdk, keyVars, endVars>>

(* peek_key looks at the queue without the mutex, so it may find anything  *)
(* while queue_key is pushing; if it finds the queue empty it yields.      *)
Sense ==
  /\ vm = "sense"
  /\ \/ (queue = <<>> \/ main = "push") /\ vm' = "yield"
     \/ (queue # <<>> \/ main = "push") /\ vm' = "peek"
  /\ UNCHANGED <<main, mode, gdk, keyVars, endVars>>

Yield ==
  /\ vm = "yield"
  /\ vm' = IF cancelled THEN "ended" ELSE "peek"
  /\ UNCHANGED <<main, mode, gdk, keyVars, endVars>>

(* Then it takes the mutex and looks again.                                *)
PeekKey ==
  /\ vm = "peek" /\ keyMutex = "free"
  /\ answer' = Answer("B_KEYSNS", IF queue = <<>> THEN NoKey ELSE Head(queue))
  /\ vm' = "program"
  /\ UNCHANGED <<main, mode, gdk, queue, keyMutex, endVars>>

(* Wrong: does not look again when the wait has ended.                     *)
WakeIntoVoid ==
  /\ vm = "wait" /\ keyMutex = "free"
  /\ answer' = Answer("B_KEYINP", NoKey)
  /\ vm' = "program"
  /\ UNCHANGED <<main, mode, gdk, queue, keyMutex, endVars>>

(* pthread_cond_wait may return when nothing was signalled.                *)
SpuriousWakeup ==
  /\ vm = "wait"
  /\ vm' = "get"
  /\ UNCHANGED <<main, mode, gdk, keyVars, endVars>>

(* get_key: waits, with the mutex released, or takes the first key.        *)
GetKey ==
  /\ vm = "get" /\ keyMutex = "free"
  /\ IF queue = <<>>
     THEN ~cancelled /\ vm' = "wait" /\ UNCHANGED <<queue, answer>>
     ELSE /\ answer' = Answer("B_KEYINP", Head(queue))
          /\ queue' = Tail(queue)
          /\ vm' = "program"
  /\ UNCHANGED <<main, mode, gdk, keyMutex, endVars>>

(* A cancellation ends the wait, or does not let it begin, with the mutex  *)
(* taken.  It is released in a build whose cancellations run destructors,  *)
(* and in another it is not.                                               *)
CancelledWhileWaiting ==
  /\ vm = "wait" \/ (vm = "get" /\ queue = <<>>)
  /\ cancelled /\ keyMutex = "free"
  /\ keyMutex' \in {"free", "vm"}
  /\ vm' = "ended"
  /\ UNCHANGED <<main, mode, gdk, queue, answer, endVars>>

(* A DOS program ends with its status, or with 255 after a fault.          *)
ProgramExit(s) ==
  /\ vm = "program" /\ mode = "run"
  /\ vmStatus' = s
  /\ vm' = "ended"
  /\ UNCHANGED <<main, mode, gdk, keyVars, cancelled, exit>>

(* An exception of the host that nothing else handles: a message.          *)
ProgramFails ==
  /\ vm = "program"
  /\ vm' = "ended"
  /\ UNCHANGED <<main, mode, gdk, keyVars, endVars>>

(* After a fault of what was booted, run_boot sets the window's status     *)
(* text, in GDK's lock.                                                    *)
BootFault ==
  /\ vm = "program" /\ mode = "boot"
  /\ vm' = "fault"
  /\ UNCHANGED <<main, mode, gdk, keyVars, endVars>>

SetStatusText ==
  /\ vm = "fault" /\ gdk = "free"
  /\ gdk' = "vm" /\ vm' = "text"
  /\ UNCHANGED <<main, mode, keyVars, endVars>>

StatusTextSet ==
  /\ vm = "text"
  /\ gdk' = "free" /\ vm' = "ended"
  /\ UNCHANGED <<main, mode, keyVars, endVars>>
-----------------------------------------------------------------------------
PushKey == \E k \in Key : Push(k)

MainStep == Start \/ EnterGdk \/ PushKey \/ LeaveGdk \/ Cancel \/ Join \/ Destroy

User == Poll \/ KeyPress \/ Quit

(* What the code does in a call once it is there, whatever the program is. *)
VmStep ==
  \/ Sense \/ Yield \/ PeekKey
  \/ GetKey \/ CancelledWhileWaiting
  \/ SetStatusText \/ StatusTextSet

Program ==
  \/ CancelledAtCall \/ CallB_KEYSNS \/ CallB_KEYINP
  \/ \E s \in Status : ProgramExit(s)
  \/ ProgramFails \/ BootFault

Terminated == main = "done" /\ UNCHANGED vars

Next == MainStep \/ User \/ VmStep \/ SpuriousWakeup \/ Program \/ Terminated

(* Threads that can go on do.  The user need not do anything, the program  *)
(* need not make another call, and no wait need end without a signal.      *)
Spec == Init /\ [][Next]_vars /\ WF_vars(MainStep) /\ WF_vars(VmStep)
-----------------------------------------------------------------------------
(* Who holds a lock is where only its holder is.                           *)
TypeOK ==
  /\ main \in {"start", "enter", "poll", "event", "push", "quit", "cancel", "join",
               "destroy", "done"}
  /\ vm \in {"none", "program", "sense", "yield", "peek", "get", "wait", "fault",
             "text", "ended"}
  /\ mode \in {"none", "boot", "run"}
  /\ queue \in Seq(Key) /\ Len(queue) <= QueueBound
  /\ keyMutex \in {"free", "main", "vm"}
  /\ (keyMutex = "main") = (main = "push")
  /\ keyMutex = "vm" => vm = "ended"
  /\ gdk \in {"free", "main", "vm"}
  /\ (gdk = "main") = (main \in {"event", "push", "quit"})
  /\ (gdk = "vm") = (vm = "text")
  /\ cancelled \in BOOLEAN
  /\ answer \in [call : {"none", "B_KEYSNS", "B_KEYINP"}, key : Key \cup {NoKey}]
  /\ answer.call = "B_KEYINP" => answer.key \in Key
  /\ vmStatus \in Status \cup {0} /\ exit \in Status \cup {0}

(* A key that _B_KEYSNS told of is the one that the next keyboard call     *)
(* tells of, however many keys are pressed in between; _B_KEYINP does not  *)
(* wait for it.                                                            *)
Sensed == answer.call = "B_KEYSNS" /\ answer.key # NoKey

SensedKeyIsNext ==
  [][Sensed => answer'.key = answer.key /\ vm' # "wait"]_vars

(* A program that waits for a key gets the one that is pressed: no wakeup  *)
(* is lost between its look at the queue and its wait.                     *)
Waiting == vm \in {"get", "wait"} /\ queue # <<>>

KeyEndsWait == Waiting ~> ~(vm \in {"get", "wait"})

(* When the main loop has been left, the main thread waits for nothing but *)
(* the program's own doings: no lock that either thread holds, no wait for *)
(* a key, no status text that is still to be shown holds it up for ever.   *)
ShutdownWaitsForProgram == []<>(main \notin {"quit", "cancel", "join", "destroy"} \/ vm = "program")

(* The objects that both threads use go when the VM's thread is gone, and  *)
(* main returns the status of the program it ran.                          *)
NothingRunsOn ==
  main \in {"destroy", "done"} =>
    vm \in {"none", "ended"} /\ exit = vmStatus
================================================================================
