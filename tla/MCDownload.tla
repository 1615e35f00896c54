----------------------------- MODULE MCDownload -----------------------------
(* Small instances of CifxDownload for TLC. *)
EXTENDS CifxDownload

MCDir == <<"a.b", "base.nxf", "opt.nxo", "conf.nxd">>
MCKind == [n \in {MCDir[i] : i \in 1 .. 4} |->
             CASE n = "a.b" -> "short" [] n = "base.nxf" -> "NXF"
               [] n = "opt.nxo" -> "NXO" [] OTHER -> "other"]
MCUnit == {"o", "x", "y", "z", "damaged"}
Old == <<"o">>
New == <<"x", "y", "z">>

(* NXF files are stored under channel 0 only. *)
Files(S) == [n \in S |-> IF n = "a.b" THEN <<>> ELSE Old]
MCStored == {[c \in 0 .. 1 |-> IF c = 0 THEN Files(S) ELSE Files({"opt.nxo"})] :
               S \in {{"base.nxf"}, {"a.b", "base.nxf", "conf.nxd"}}}

Do(op, c, n, d, b) == [op |-> op, ch |-> c, name |-> n, data |-> d, buf |-> b]
MCJob ==
  {Do("FILE", 0, "conf.nxd", New, 0), Do("FIRMWARE", 1, "opt.nxo", <<>>, 0),
   Do("STARTUP", 0, "base.nxf", New, 0), Do("MODULE", 0, "opt.nxo", Old, 0),
   Do("MODULE", 1, "opt.nxo", Old, 0), Do("UPLOAD", 0, "conf.nxd", <<>>, 3),
   Do("UPLOAD_FW", 0, "base.nxf", <<>>, 0), Do("UPLOAD_FW", 0, "a.b", <<>>, 0),
   Do("FIND", 0, "a.b", <<>>, 0)}
=============================================================================
