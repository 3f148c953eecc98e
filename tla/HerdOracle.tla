------------------------------ MODULE HerdOracle -----------------------------
(***************************************************************************)
(* scripts/run_coherent_herd.py, lines 40-57: how herd7's output for a     *)
(* litmus test becomes the set of outcomes that the RTL is allowed.        *)
(*                                                                         *)
(* A line of output is a record.  Only what the parser looks at is kept:   *)
(* its kind and the register values, "0:x8=1", that it contains.           *)
(***************************************************************************)
EXTENDS Naturals, Sequences, SequencesExt

CONSTANT Value     \* the values a load can return, 0 among them

(* A register is <<hart, number>>: x8 and x9 hold a hart's first and       *)
(* second load.  The conditions of the tests name these registers.         *)
Shape == {{<<0, 8>>, <<1, 8>>}, {<<1, 8>>}, {<<1, 9>>}}

(* The registers of the two harts' last loads; hart 0 may have none.       *)
Reg0 == <<0, 8>>

Reg1(registers) == IF <<1, 9>> \in registers THEN <<1, 9>> ELSE <<1, 8>>

NoValues == [r \in {} |-> 0]
Text(kind) == [kind |-> kind, values |-> NoValues]
State(values) == [kind |-> "state", values |-> values]

(* herd7 lists the states it found, says whether one satisfies the         *)
(* exists-condition ("Ok") or none does ("No"), and then repeats the       *)
(* condition between lines that contain no register.                       *)
Output(states, condition) ==
  <<Text("Test"), Text("States")>>
    \o [n \in DOMAIN states |-> State(states[n])]
    \o <<Text(IF condition \in ToSet(states) THEN "Ok" ELSE "No"),
         Text("Witnesses"), Text("Positive"),
         [kind |-> "Condition", values |-> condition],
         Text("Observation"), Text("Time")>>

VARIABLES shape, states,  \* a test and what herd7 found for it
          line,           \* the number of the next line
          in_states, state_lines, pairs, done

vars == <<shape, states, line, in_states, state_lines, pairs, done>>

(* Every test asks whether all its registers can be 0.                     *)
Condition == [r \in shape |-> 0]
Lines == Output(states, Condition)

Init == /\ shape \in Shape
        /\ \E found \in SUBSET [shape -> Value] :
             found # {} /\ states = SetToSeq(found)
        /\ line = 1
        /\ in_states = FALSE
        /\ state_lines = <<>>
        /\ pairs = {}
        /\ done = FALSE

(* values.get((hart, reg), 0)                                              *)
Get(values, r) == IF r \in DOMAIN values THEN values[r] ELSE 0
Pair(values) == <<Get(values, Reg0), Get(values, Reg1(shape))>>

StatesLine == Lines[line].kind = "States"
Ended == IF line <= Len(Lines) THEN in_states /\ Lines[line].kind = "Ok" ELSE TRUE

(* One line of the loop that collects the state lines.                     *)
Collect ==
  /\ ~done /\ ~Ended
  /\ in_states' = (in_states \/ StatesLine)
  /\ state_lines' = IF in_states /\ ~StatesLine
                    THEN Append(state_lines, Lines[line]) ELSE state_lines
  /\ line' = line + 1
  /\ UNCHANGED <<shape, states, pairs, done>>

(* The end of that loop, and the loop that extracts a pair from each.      *)
Extract ==
  /\ ~done /\ Ended
  /\ pairs' = {Pair(l.values) : l \in ToSet(state_lines)}
  /\ done' = TRUE
  /\ UNCHANGED <<shape, states, line, in_states, state_lines>>

Next == Collect \/ Extract

Spec == Init /\ [][Next]_vars

-----------------------------------------------------------------------------
(* What herd7 found: the values of each hart's last load.                  *)
Found == {<<IF <<0, 8>> \in shape THEN s[<<0, 8>>] ELSE 0,
            IF <<1, 9>> \in shape THEN s[<<1, 9>>] ELSE s[<<1, 8>>]>> :
          s \in ToSet(states)}

(* The RTL is compared with exact herd7 sets                               *)
(* (docs/coherent_memory_system.md:27): nothing herd7 did not find is      *)
(* allowed.                                                                *)
AllowedSetExact == done => pairs = Found
=============================================================================
