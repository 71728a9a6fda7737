----------------------------- MODULE WireFormat -----------------------------
(***************************************************************************)
(* The layers around an event on their way through kombu and SQS, and what *)
(* _unwrap_kombu_envelope of contracts/messages.py makes of them.          *)
(*                                                                         *)
(* A text is the sequence of its layers, the outermost first: encodings    *)
(* around one content.  base64 and JSON are thereby what they do, put a    *)
(* layer on and take it off; an envelope that calls something base64 which *)
(* is not decodes to other text or to bytes that are no text at all.       *)
(***************************************************************************)
EXTENDS Sequences, Naturals

Encodings ==
  {"base64",      \* base64 of the rest, without a stray character
   "envelope64",  \* kombu's JSON envelope, the rest base64-encoded in "body"
   "envelope"}    \* kombu's JSON envelope, the rest as it is in "body"

Contents ==
  {"event",  \* the JSON of an event
   "text",   \* any other text
   "bytes"}  \* bytes that no charset, or no base64 decoder, accepts

\* Bytes stand only where something is decoded.
Texts ==
  {t \in Seq(Encodings \cup Contents) :
     /\ t # <<>> /\ t[Len(t)] \in Contents
     /\ \A i \in 1..(Len(t) - 1) : t[i] \in Encodings
     /\ t[Len(t)] = "bytes" => Len(t) > 1 /\ t[Len(t) - 1] # "envelope"}

\* What kombu's SQS transport puts on the queue for a payload, and what its
\* consumers make of that again.
KombuSqs(payload) == <<"base64", "envelope64">> \o payload

\* obj is a dict with "body", "content-type" and a dict of "properties".
IsEnvelope(t) == t[1] \in {"envelope64", "envelope"}

\* The text without its outer base64, if it decodes to text.
Opened(t) == IF t[1] = "base64" /\ t[2] # "bytes" THEN Tail(t) ELSE t

\* The text that _try_kombu_envelope finds an envelope in, if either try does:
\* the body as it came goes first.
Candidate(t) == IF IsEnvelope(t) THEN t ELSE Opened(t)

\* The b64decode(...).decode(...) of an envelope's body raises, and neither
\* caller catches it.
UnwrapRaises(t) == Candidate(t)[1] = "envelope64" /\ Candidate(t)[2] = "bytes"

\* One envelope is taken off, never two; what is in none stays as it came.
Unwrap(t) == IF IsEnvelope(Candidate(t)) THEN Tail(Candidate(t)) ELSE t
=============================================================================
