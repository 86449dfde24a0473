---------------------------- MODULE CodecService ----------------------------
(***************************************************************************)
(* What the compression worker promises its caller (spec sections 4.3 and  *)
(* 5), with the worker's concurrency hidden: the caller posts numbered     *)
(* requests of two kinds, and what it applies for a kind is always the     *)
(* result of its latest request of that kind, each result applied once, so *)
(* a result never replaces a newer one.  The result of a compress request  *)
(* is the compression of its text; the result of a decompress request is   *)
(* the text its compressed text decompresses to, and there is none for a   *)
(* compressed text that does not decompress.  Errors and superseded        *)
(* results change nothing the caller sees, so they are stuttering steps.   *)
(***************************************************************************)
EXTENDS Naturals, Sequences

CONSTANTS
    MaxVersion,     \* number of requests the caller posts
    Requests,       \* the requests the caller may post
    Compress(_),    \* the compressed text of a text
    Decompress(_),  \* the text a compressed text decompresses to
    Decodable(_)    \* a compressed text decompresses without an error

VARIABLES
    posted,    \* the requests posted so far, by version
    latest,    \* the latest version posted of each kind
    applied,   \* the version whose result was last applied, per kind
    value      \* the result last applied, per kind

vars == <<posted, latest, applied, value>>

Kinds == {"compress", "decompress"}

\* The caller has applied nothing yet.
NoValue == "none"

Result(r) ==
    IF r.request = "compress" THEN Compress(r.text)
                              ELSE Decompress(r.compressedText)

HasResult(r) == r.request = "compress" \/ Decodable(r.compressedText)

Init ==
    /\ posted = << >>
    /\ latest = [k \in Kinds |-> 0]
    /\ applied = [k \in Kinds |-> 0]
    /\ value = [k \in Kinds |-> NoValue]

\* The caller posts request r with the next version.
Request(r) ==
    /\ Len(posted) < MaxVersion
    /\ r.version = Len(posted) + 1
    /\ posted' = Append(posted, r)
    /\ latest' = [latest EXCEPT ![r.request] = r.version]
    /\ UNCHANGED <<applied, value>>

\* The result of the latest request of kind k, not applied yet, is applied.
Answer(k) ==
    LET r == posted[latest[k]] IN
    /\ applied[k] < latest[k]
    /\ HasResult(r)
    /\ applied' = [applied EXCEPT ![k] = latest[k]]
    /\ value' = [value EXCEPT ![k] = Result(r)]
    /\ UNCHANGED <<posted, latest>>

Next == (\E r \in Requests : Request(r)) \/ (\E k \in Kinds : Answer(k))

Spec == Init /\ [][Next]_vars

=============================================================================
