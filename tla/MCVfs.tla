------------------------------- MODULE MCVfs -------------------------------
(* Vfs with the archive that the Makefile's tar command writes (the        *)
(* directory itself comes first) and two others: more files than the table *)
(* holds, with an empty one between, and one whose first file has data.    *)
EXTENDS Vfs

File(name, size) == [name |-> name, size |-> size, type |-> "0"]
Dot == [name |-> "./", size |-> 0, type |-> "5"]

MCArchives == {
  <<Dot, File("./a", 3), File("./b", 2)>>,
  <<File("./a", 1), File("./b", 0), File("./c", 4), Dot>>,
  <<File("./a", 2)>>}
MCSizes == 1 .. 5
MCWanted == {"./", "./a", "./b", "./x"}
=============================================================================
