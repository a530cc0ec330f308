---------------------------- MODULE MCCodeLifting ----------------------------
(* The functions lifted for checking CodeLifting: all of up to MaxLength     *)
(* instructions that end where control leaves them, with every symbol and    *)
(* with branches to every word, the one after the end included.              *)
EXTENDS CodeLifting

CONSTANT MaxLength

Plain == [op : {"valu", "barrier", "wait", "endpgm", "setpc", "data"},
          sym : {"none"}, to : {0}]
Literals == [op : {"literal"}, sym : Symbols \cup {"none"}, to : {0}]
Branches == [op : {"cbranch", "branch"}, sym : {"none"}, to : 0..(MaxLength + 1)]

Ends == {i \in Plain \cup Branches : i.op \in {"endpgm", "setpc", "branch"}}
MCPrograms ==
    UNION {{p \in [1..n -> Plain \cup Literals \cup Branches] : p[n] \in Ends} :
           n \in 1..MaxLength}
=============================================================================
