--------------------------- MODULE MCPseudocodigo ---------------------------
(* Instances of Pseudocodigo for TLC: the files users write.               *)
EXTENDS Pseudocodigo

I(n, a) == [nombre |-> n, args |-> a]

(* Instructions of each arity, F_SEEK, and two ways to write one wrong: an
   operand is missing, the word is unknown. *)
Lineas == { I("F_READ", <<"f", "4", "8">>), I("F_SEEK", <<"f", "2">>),
            I("SET", <<"AX", "x">>), I("WAIT", <<"D">>), I("SIGNAL", <<"D">>),
            I("YIELD", <<>>), I("EXIT", <<>>),
            I("I/O", <<>>), I("NADA", <<>>) }

(* pseudocodigo.txt of the console. *)
Ejemplo ==
  << I("SET", <<"AX", "HOLA">>), I("MOV_OUT", <<"120", "AX">>),
     I("WAIT", <<"DISCO">>), I("I/O", <<"10">>), I("SIGNAL", <<"DISCO">>),
     I("MOV_IN", <<"BX", "120">>), I("F_OPEN", <<"ARCHIVO">>), I("YIELD", <<>>),
     I("F_TRUNCATE", <<"ARCHIVO", "64">>), I("F_SEEK", <<"ARCHIVO", "10">>),
     I("CREATE_SEGMENT", <<"1", "128">>),
     I("F_WRITE", <<"ARCHIVO", "4", "4">>),
     I("F_READ", <<"ARCHIVO", "16", "4">>), I("DELETE_SEGMENT", <<"1">>),
     I("F_CLOSE", <<"ARCHIVO">>), I("EXIT", <<>>) >>

(* Four lines, the last two F_SEEK or F_WRITE and EXIT. *)
Largos == { << a, b, c, I("EXIT", <<>>) >> : a, b \in Lineas,
            c \in { I("F_SEEK", <<"f", "2">>),
                    I("F_WRITE", <<"f", "0", "4">>) } }

UnosProgramas == UNION { [1..n -> Lineas] : n \in 0..3 } \cup Largos
                 \cup { Ejemplo }
=============================================================================
