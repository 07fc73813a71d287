---------------------------- MODULE MCConnection ----------------------------
(* Instances of Connection for TLC. *)
EXTENDS Connection

CONSTANTS db1, db2, utf8

TwoSchemas == {db1, db2}
OneCharset == {utf8}
EveryAccount ==
    [auto_commit : BOOLEAN, schema : {db1, Unset}, options : BOOLEAN]
PlainAccounts ==
    [auto_commit : BOOLEAN, schema : {Unset}, options : {FALSE}]
=============================================================================
