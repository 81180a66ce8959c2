---------------------------- MODULE MCChildSync ----------------------------
(***************************************************************************)
(* Instances of ChildSync for TLC: two contents suffice for an edit and    *)
(* its revert.                                                             *)
(***************************************************************************)
EXTENDS ChildSync

MCContents == {"a", "b"}
=============================================================================
