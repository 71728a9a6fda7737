-------------------------- MODULE MCLocalConsumer --------------------------
(* Instances of LocalConsumer for TLC. *)
EXTENDS LocalConsumer

\* An event, JSON that is none, and JSON that looks like a spoilt envelope.
MCPayloads == {<<"event">>, <<"text">>, <<"envelope64", "bytes">>}
=============================================================================
