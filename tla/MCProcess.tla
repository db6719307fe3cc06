----------------------------- MODULE MCProcess -----------------------------
(* One of the two files has an ampersand in its name, the stream has a per *)
(* cent sign.                                                              *)
EXTENDS Process
=============================================================================
