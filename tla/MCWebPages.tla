------------------------------ MODULE MCWebPages ------------------------------
(* The pages on small instances: a unit two levels below the root, a field *)
(* of every mode and fewer columns than fields, two trees to pick from.    *)
EXTENDS WebPages

PathToUnit == <<"root", "dept">>

BlanksOff == [v \in 0..3 |-> IF v = 3 THEN 2 ELSE v]   \* 3 is 2 with a blank

SomeModes == [key \in {"short_name", "d_org_type", "x_note"} |->
  CASE key = "short_name" -> "builtin" [] key = "d_org_type" -> "dict" [] key = "x_note" -> "custom"]

TreeBefore == [u \in {"root", "dept", "team", "other"} |->
  CASE u = "root" -> <<"root">> [] u = "other" -> <<"other">>
    [] u = "dept" -> <<"root", "dept">> [] u = "team" -> <<"root", "dept", "team">>]

(* The team is moved, a squad is made beside where it was.                 *)
TreeAfter == [u \in {"root", "dept", "team", "other", "squad"} |->
  CASE u = "root" -> <<"root">> [] u = "other" -> <<"other">>
    [] u = "dept" -> <<"root", "dept">> [] u = "team" -> <<"other", "team">>
    [] u = "squad" -> <<"root", "dept", "squad">>]

SomeTrees == {TreeBefore, TreeAfter}

SomeColumns == [t \in {"text", "int"} |-> IF t = "text" THEN 2 ELSE 1]
=============================================================================
