------------------------------ MODULE Supervisor ------------------------------
(***************************************************************************)
(* Calls from a program into the emulator and back: TRAP #15 and the IOCS  *)
(* (libvx68k/systemrom.cc), _SUPER, _SUPER_JSR and the start of a program  *)
(* (libvx68kdos), and the exceptions of a booted one (machine::boot).      *)
(* What they do to the supervisor state, to both stacks and to the PC.     *)
(*                                                                         *)
(* Addresses count words; a long word is the value in its first cell.  A   *)
(* place in code is <<code, offset>>, a saved status register              *)
(* <<"sr", 0 or 1>>, so that all values on a stack are of one shape.       *)
(***************************************************************************)
EXTENDS Integers, Sequences, FiniteSets

CONSTANTS
  Top,         \* where a program's stack begins
  SuperTop,    \* where the supervisor's does that a booted program sets up
  MaxCalls     \* bound on calls that are open at a time

SupervisorAssumption ==
  /\ Top \in Nat /\ SuperTop \in Nat /\ MaxCalls \in Nat
  /\ Top > 7 * (MaxCalls + 1) /\ SuperTop > 7 * (MaxCalls + 1)

VARIABLES
  dos,     \* a DOS program runs, not a booted one
  regs,    \* supervisor state, A7, USP, SSP, PC, D0
  mem,     \* the stacks
  vec,     \* vectors and IOCS entries: the ROM's or the program's handler
  runs,    \* last_pc and last_state of dos_super_jsr's open activations
  rerun,   \* the local pc of machine::boot
  calls    \* of the program, open: their kinds, the registers it expects back

vars == <<dos, regs, mem, vec, runs, rerun, calls>>

Vectors == {"bus", "fline", "trap", "trap15", "iocs"}

(* Codes of the program: its own, and a handler for each vector.           *)
Program == {"main", "jsr"} \cup Vectors

(* IOCS calls: one that has results only, _B_INTVCS, _B_SUPER, one that    *)
(* is not there.                                                           *)
Plain == 0
Intvcs == 1
BSuper == 2
Invalid == 3

(* 0xfe0000 and what follows is what the vectors hold first; 0xfe0400 the  *)
(* entries of the IOCS calls; 0xfef600 where the routine of a _SUPER_JSR   *)
(* returns to.                                                             *)
RomVector == <<"vector", 0>>
RomCall(n) == <<"call", n>>
Sentinel == <<"sentinel", 0>>
End == <<"end", 0>>

(* Instructions as get_16 gives them: 0xf84f for the IOCS's entries, or    *)
(* else 0x4e73.                                                            *)
Fetch(place) == IF place[1] = "call" THEN "iocs" ELSE "rte"
-----------------------------------------------------------------------------
Sr(r) == <<"sr", IF r.sup THEN 1 ELSE 0>>

(* The instruction behind the one at pc.                                   *)
Behind(pc) == <<pc[1], 2>>

(* set_supervisor_state: the stack pointers change places.                 *)
SetState(r, s) ==
  IF s = r.sup THEN r
  ELSE IF s THEN [r EXCEPT !.sup = TRUE, !.usp = r.a7, !.a7 = r.ssp]
  ELSE [r EXCEPT !.sup = FALSE, !.ssp = r.a7, !.a7 = r.usp]

(* Enters supervisor state and writes the words of a frame, a function     *)
(* from offsets, size words below; the program goes on at place.           *)
PushFrame(frame, size, place) ==
  LET r == [SetState(regs, TRUE) EXCEPT !.a7 = @ - size, !.pc = place]
  IN /\ regs' = r
     /\ mem' = [a \in DOMAIN mem |->
                  IF a - r.a7 \in DOMAIN frame THEN frame[a - r.a7] ELSE mem[a]]

(* Takes size words off the stack.  Nothing reads them again, and they are *)
(* not kept.                                                               *)
PopFrame(r, size) ==
  /\ regs' = r
  /\ mem' = [a \in DOMAIN mem |-> IF a - regs.a7 \in 0..(size - 1) THEN <<"junk", 0>> ELSE mem[a]]

TrapFrame(pc) == [i \in 0..1 |-> IF i = 0 THEN Sr(regs) ELSE pc]

(* Where the program's call is answered: its own handler or the ROM's.     *)
Entry(v) == IF vec[v] = "own" THEN <<v, 0>> ELSE RomVector

Open(kind, r) == calls' = Append(calls, [kind |-> kind, regs |-> r])
Close == calls' = SubSeq(calls, 1, Len(calls) - 1)
TopKind == IF calls = <<>> THEN "none" ELSE calls[Len(calls)].kind

(* The program executes an instruction that may open a call.               *)
Running == regs.pc[1] \in Program
MayOpen == Running /\ Len(calls) < MaxCalls
-----------------------------------------------------------------------------
(* The initial values of system_rom::initialize; a DOS program starts in   *)
(* user state with both stack pointers at the same address, a booted one   *)
(* at 0x2000 and sets its stacks apart.                                    *)
Init ==
  /\ dos \in BOOLEAN
  /\ LET r == [sup |-> TRUE, a7 |-> Top + (IF dos THEN 0 ELSE SuperTop), usp |-> Top,
               ssp |-> 0, pc |-> <<"main", 2>>, d0 |-> -1]
     IN regs = IF dos THEN SetState(r, FALSE) ELSE r
  /\ mem = [a \in 0..(Top + SuperTop + 3) |-> <<"junk", 0>>]
  /\ vec = [v \in Vectors |-> "rom"]
  /\ runs = <<>>
  /\ rerun = <<"main", 0>>
  /\ calls = <<>>

Finish(r) == regs' = [r EXCEPT !.pc = End]

(* TRAP #15 with a handler of the program's for that trap, or for the      *)
(* IOCS call, which returns with RTS to an RTE in the ROM.                 *)
TrapHandler(n) ==
  \/ /\ vec["trap15"] = "own"
     /\ PushFrame(TrapFrame(Behind(regs.pc)), 3, <<"trap15", 0>>)
     /\ Open("trap", [regs EXCEPT !.pc = Behind(regs.pc), !.d0 = -1])
     /\ UNCHANGED vec
  \/ /\ vec["trap15"] = "rom" /\ n = Plain /\ vec["iocs"] = "own"
     /\ PushFrame([i \in {0, 2, 3} |-> IF i = 0 THEN RomVector
                                      ELSE IF i = 2 THEN Sr(regs) ELSE Behind(regs.pc)],
                  5, <<"iocs", 0>>)
     /\ Open("iocs", [regs EXCEPT !.pc = Behind(regs.pc), !.d0 = -1])
     /\ UNCHANGED vec

(* _B_SUPER: to user state when given a stack, to supervisor state if not, *)
(* always on the stack that is in use.                                     *)
IocsSuper(r, stack) ==
  CASE stack # 0 /\ r.sup ->
         [SetState([r EXCEPT !.usp = r.a7, !.a7 = stack], FALSE) EXCEPT !.d0 = 0]
    [] stack # 0 /\ ~r.sup -> [r EXCEPT !.d0 = 0]
    [] stack = 0 /\ r.sup -> [r EXCEPT !.d0 = 1]
    [] OTHER -> LET s == SetState(r, TRUE) IN [s EXCEPT !.d0 = s.a7, !.a7 = s.usp]

(* _B_INTVCS: vector numbers above 0x1ff are refused.                      *)
SetVector ==
  \/ \E v \in Vectors : vec' = [vec EXCEPT ![v] = IF @ = "rom" THEN "own" ELSE "rom"]
  \/ UNCHANGED vec

(* Opens or closes a change of state that a call has made.                 *)
Switch(stack, new) ==
  CASE stack # 0 -> Close
    [] stack = 0 /\ new.sup /\ ~regs.sup -> Open("super", [regs EXCEPT !.d0 = new.d0])
    [] OTHER -> UNCHANGED calls

(* What a program gives to a call that changes state: 0, or the stack that *)
(* the open one has returned.                                              *)
Stacks == {0} \cup {calls[i].regs.d0 : i \in {j \in {Len(calls)} : j > 0 /\ TopKind = "super"}}

(* TRAP #15 that the ROM answers.                                          *)
TrapRom(n) ==
  /\ vec["trap15"] = "rom" /\ ~(n = Plain /\ vec["iocs"] = "own")
  /\ LET r == [regs EXCEPT !.pc = Behind(regs.pc), !.d0 = -1]
     IN \/ n = Plain /\ regs' = r /\ UNCHANGED <<vec, calls>>
        \/ n = Intvcs /\ regs' = r /\ SetVector /\ UNCHANGED calls
        \/ /\ n = BSuper
           /\ \E s \in Stacks : regs' = IocsSuper(r, s) /\ Switch(s, regs')
           /\ UNCHANGED vec
        \/ n = Invalid /\ Finish(r) /\ UNCHANGED <<vec, calls>>
  /\ UNCHANGED mem

IocsTrap ==
  /\ MayOpen
  /\ \E n \in {Plain, Intvcs, BSuper, Invalid} : TrapHandler(n) \/ TrapRom(n)
  /\ UNCHANGED <<dos, runs, rerun>>

(* The program's handler of an IOCS call goes on at the ROM's entry.       *)
ChainToRom ==
  /\ regs.pc[1] = "iocs" /\ TopKind = "iocs"
  /\ regs' = [regs EXCEPT !.pc = RomCall(Plain)]
  /\ UNCHANGED <<dos, mem, vec, runs, rerun, calls>>

(* Wrong: the return address stays on the stack.                           *)
RomEntryNoPop ==
  /\ Fetch(regs.pc) = "iocs" /\ regs.pc[1] \notin Program /\ regs.pc # End
  /\ regs' = [regs EXCEPT !.d0 = -1, !.pc = mem[regs.a7]]
  /\ UNCHANGED <<dos, mem, vec, runs, rerun, calls>>

(* x68k_iocs: the instruction at such an entry calls and returns.          *)
RomEntry ==
  /\ Fetch(regs.pc) = "iocs" /\ regs.pc[1] \notin Program /\ regs.pc # End
  /\ PopFrame([regs EXCEPT !.d0 = -1, !.pc = mem[regs.a7], !.a7 = @ + 2], 2)
  /\ UNCHANGED <<dos, vec, runs, rerun, calls>>

(* The processor's RTE and RTS.                                            *)
Rte == SetState([regs EXCEPT !.pc = mem[regs.a7 + 1], !.a7 = @ + 3], mem[regs.a7] = <<"sr", 1>>)
Rts == [regs EXCEPT !.pc = mem[regs.a7], !.a7 = @ + 2]

(* A handler of the program's returns: from a trap with RTE, from an IOCS  *)
(* call and from the routine of a _SUPER_JSR with RTS.                     *)
HandlerReturn ==
  /\ Running
  /\ \/ /\ regs.pc[1] \in {"trap", "trap15", "fline"} /\ TopKind = "trap"
        /\ PopFrame([Rte EXCEPT !.d0 = -1], 3) /\ Close
     \/ /\ <<regs.pc[1], TopKind>> \in {<<"iocs", "iocs">>, <<"jsr", "jsr">>}
        /\ PopFrame(Rts, 2) /\ UNCHANGED calls
  /\ UNCHANGED <<dos, vec, runs, rerun>>

(* The RTE that the ROM gives outside of the IOCS's entries.                *)
RomRte ==
  /\ PopFrame([Rte EXCEPT !.d0 = -1], 3)
  /\ IF TopKind \in {"trap", "iocs"} /\ regs.pc = RomVector THEN Close ELSE UNCHANGED calls
  /\ UNCHANGED <<dos, vec, runs, rerun>>
-----------------------------------------------------------------------------
(* _SUPER, in the program's own words.                                     *)
DosSuper ==
  /\ dos /\ MayOpen
  /\ LET r == [regs EXCEPT !.pc = Behind(regs.pc)]
     IN \E s \in Stacks :
          /\ regs' = IF s # 0
                     THEN IF r.sup THEN SetState([r EXCEPT !.usp = r.a7, !.a7 = s], FALSE) ELSE r
                     ELSE IF r.sup THEN [r EXCEPT !.d0 = -26]
                     ELSE LET t == SetState(r, TRUE) IN [t EXCEPT !.d0 = t.a7, !.a7 = t.usp]
          /\ Switch(s, regs')
  /\ UNCHANGED <<dos, mem, vec, runs, rerun>>

(* _SUPER_JSR: the routine runs in an activation of run of its own, with   *)
(* the sentinel as its return address.                                     *)
DosSuperJsr ==
  /\ dos /\ MayOpen
  /\ PushFrame([i \in {0} |-> Sentinel], 2, <<"jsr", 0>>)
  /\ runs' = Append(runs, [pc |-> regs.pc, sup |-> regs.sup])
  /\ Open("jsr", [regs EXCEPT !.pc = Behind(regs.pc)])
  /\ UNCHANGED <<dos, vec, rerun>>

(* A bus error at the sentinel ends the innermost activation.              *)
JsrReturn ==
  /\ LET last == runs[Len(runs)]
     IN regs' = [SetState(regs, last.sup) EXCEPT !.pc = Behind(last.pc)]
  /\ runs' = SubSeq(runs, 1, Len(runs) - 1)
  /\ Close
  /\ UNCHANGED <<dos, mem, vec, rerun>>

(* The program has come to a place in the ROM that is no IOCS entry.  Only  *)
(* if get_16 refused the fetch could dos_super_jsr catch its return.       *)
RomFetch ==
  /\ regs.pc \in {RomVector, Sentinel}
  /\ IF Fetch(regs.pc) = "rte" THEN RomRte
     ELSE regs.pc = Sentinel /\ runs # <<>> /\ JsrReturn

(* A DOS program ends: _EXIT2, and every instruction or address that the   *)
(* processor refuses, wherever it is called from.                          *)
DosEnd ==
  /\ dos /\ Running
  /\ Finish(regs)
  /\ UNCHANGED <<dos, mem, vec, runs, rerun, calls>>

(* machine::boot's handlers: line 1111 leaves the instruction to its       *)
(* handler, another trap goes on behind.                                   *)
BootTrap ==
  /\ ~dos /\ MayOpen
  /\ \E v \in {"fline", "trap"} :
       LET pc == IF v = "fline" THEN regs.pc ELSE Behind(regs.pc)
       IN /\ PushFrame(TrapFrame(pc), 3, Entry(v))
          /\ rerun' = Entry(v)
          /\ Open("trap", [regs EXCEPT !.d0 = -1, !.pc = pc])
  /\ UNCHANGED <<dos, vec, runs>>

(* A bus or address error: without a handler the machine stops, with one   *)
(* the frame is pushed and the PC set, but run is given the local pc: the  *)
(* program goes on where it last was run from.  Not followed further.      *)
BootFault ==
  /\ ~dos /\ MayOpen
  /\ IF vec["bus"] = "own"
     THEN /\ PushFrame([i \in {0, 1, 3, 4, 5} |-> IF i = 5 THEN regs.pc
                                                 ELSE IF i = 4 THEN Sr(regs) ELSE <<"fault", i>>],
                       7, <<"rerun", 0>>)
          /\ Open("fault", [regs EXCEPT !.pc = rerun])
     ELSE Finish(regs) /\ UNCHANGED <<mem, calls>>
  /\ UNCHANGED <<dos, vec, runs, rerun>>

(* A booted program sets its user stack and leaves the supervisor state.   *)
ToUser ==
  /\ ~dos /\ Running /\ calls = <<>> /\ regs.sup
  /\ regs' = [SetState(regs, FALSE) EXCEPT !.pc = Behind(@)]
  /\ UNCHANGED <<dos, mem, vec, runs, rerun, calls>>

Next ==
  \/ IocsTrap \/ ChainToRom \/ RomEntry \/ HandlerReturn \/ RomFetch
  \/ DosSuper \/ DosSuperJsr \/ DosEnd
  \/ BootTrap \/ BootFault \/ ToUser

Spec == Init /\ [][Next]_vars
-----------------------------------------------------------------------------
(* Pointers stay within the stacks that a program has set up, and an open  *)
(* _SUPER_JSR has its activation.                                          *)
TypeOK ==
  /\ dos \in BOOLEAN
  /\ regs.sup \in BOOLEAN /\ {regs.a7, regs.usp, regs.ssp} \subseteq 0..(Top + SuperTop + 3)
  /\ vec \in [Vectors -> {"rom", "own"}]
  /\ Len(runs) >= Cardinality({i \in DOMAIN calls : calls[i].kind = "jsr"})

(* What a program relies on in a state: which stack is in use and where    *)
(* both are, where it goes on, what the call has given.                    *)
Seen(r) == <<r.sup, r.a7, r.pc, IF r.sup THEN r.usp ELSE r.ssp>>

(* A call leads back behind its instruction with the stack, the other      *)
(* stack and the state it was made with, however trap handlers, IOCS       *)
(* handlers of the program's, the ROM's own, _SUPER and _B_SUPER nest.     *)
CallsBalance ==
  [][ Len(calls') < Len(calls) =>
        Seen([regs' EXCEPT !.pc = IF TopKind = "super" THEN calls[Len(calls)].regs.pc ELSE @])
          = Seen(calls[Len(calls)].regs) ]_vars

(* systemrom.cc:79 says that "a program access generates a bus error",     *)
(* which is what _SUPER_JSR waits for: its routine's return to the         *)
(* sentinel leads back to its caller.                                      *)
JsrReturns ==
  [][ regs.pc = Sentinel => Seen(regs') = Seen(calls[Len(calls)].regs) ]_vars
=============================================================================
