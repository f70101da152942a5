----------------------------- MODULE MCControl -----------------------------
(* Programs written in a part of the forms at a time. *)
EXTENDS Control

ThrowForms   == {"throw", "try", "adverse", "again", "Domain", "NotYet", "Internal", "execute",
                 "unbound"}
ProgramForms == {"while", "for", "choose", "select", "silent", "named", "break", "continue",
                 "return", "goto", "goto_by", "Domain"}
=============================================================================
