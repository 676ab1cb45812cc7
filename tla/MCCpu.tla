------------------------------- MODULE MCCpu -------------------------------
(* Instances of Cpu for TLC: two programs that meet in segment 0 and in the *)
(* memory after their own segments.                                        *)
EXTENDS Cpu

I(op, d, n, r) == [op |-> op, dir |-> d, n |-> n, reg |-> r]
Sin(op) == I(op, 0, 0, "AX")

(* The memory of addresses 16 to 31 is segment 1, which CREATE_SEGMENT makes,
   and 32 is a segment no process has.  Segment 0 is 4 bytes long: 4 is at its
   limit and 9 beyond it. *)
Uno == << I("SET", 0, 0, "AX"), I("CREATE_SEGMENT", 1, 4, "AX"),
          I("MOV_OUT", 20, 0, "RAX"), Sin("YIELD"), I("MOV_IN", 16, 0, "EAX"),
          I("F_WRITE", 16, 4, "AX"), I("F_READ", 16, 2, "AX"),
          I("MOV_OUT", 9, 0, "RAX"), I("SET", 0, 0, "AX"), Sin("OTRA"),
          Sin("EXIT") >>
Dos == << I("MOV_OUT", 4, 0, "EAX"), Sin("I/O"),
          I("CREATE_SEGMENT", 1, 8, "AX"), I("F_READ", 33, 2, "AX"),
          I("MOV_OUT", 32, 0, "AX"), I("MOV_OUT", 16, 0, "EAX"),
          I("F_WRITE", 20, 8, "AX"), Sin("EXIT") >>

DosProgramas == <<Uno, Dos>>

(* Bytes that malloc gave: a segment in the middle of memory, and nothing. *)
UnasBasuras == { [base |-> 8, limite |-> 16], [base |-> 0, limite |-> 0] }
=============================================================================
