------------------------------ MODULE ClobRequests ------------------------------
(***************************************************************************)
(* Requests to the CLOB (clients/clob_rest.py): one with its retries, and  *)
(* get_books, which asks for many books in batches.  The venue answers a   *)
(* request in any way it may, and a batch with the books it has.           *)
(***************************************************************************)
EXTENDS Integers, Sequences, FiniteSets, SequencesExt

CONSTANTS QToken,
          Absent,      \* no token: None or an empty string
          BatchSize,   \* batch_size
          HttpRetries, \* http_max_retries
          MaxWanted    \* bound: tokens in a call

ASSUME RequestAssumption ==
    BatchSize \in Nat \ {0} /\ HttpRetries \in Nat /\ MaxWanted \in Nat

VARIABLES
    wanted,  \* token_ids of the call
    next,    \* where the next batch begins
    attempt, \* attempts made for it
    out,     \* the books received
    answer,  \* the last answer to a request
    verdict, \* "busy", "ok" or the error raised
    asked    \* history: the tokens of the batches answered, in order

qVars == <<wanted, next, attempt, out, answer, verdict, asked>>

Transient == {"network", "429", "5xx"}
Answer == Transient \cup {"404", "4xx", "garbage", "2xx"}

QInit ==
    /\ wanted \in UNION {[1..n -> QToken \cup {Absent}] : n \in 0..MaxWanted}
    /\ next = 1 /\ attempt = 0 /\ out = {} /\ answer = "none" /\ verdict = "busy" /\ asked = <<>>

(* dict.fromkeys over the tokens there are: first occurrences, in order. *)
Firsts == {i \in DOMAIN wanted :
             wanted[i] # Absent /\ \A j \in 1..i - 1 : wanted[j] # wanted[i]}

Unique ==
    [k \in 1..Cardinality(Firsts) |->
        wanted[CHOOSE i \in Firsts : Cardinality({j \in Firsts : j <= i}) = k]]

UpTo(n) == SubSeq(Unique, next, IF n < Len(Unique) THEN n ELSE Len(Unique))

(* mutant of Chunk: a batch stops one token short                              *)
ChunkShort == UpTo(next + BatchSize - 2)

Chunk == UpTo(next + BatchSize - 1)

MayTryAgain == attempt < HttpRetries

(* The error _request or _safe_json raises for an answer that ends it. *)
Raised(a) ==
    CASE a = "429" -> "RateLimited"
      [] a = "404" -> "NotFound"
      [] a = "garbage" -> "UpstreamSchemaError"
      [] OTHER -> "UpstreamUnavailable"

Request ==
    /\ verdict = "busy" /\ next <= Len(Unique)
    /\ \E a \in Answer :
         /\ answer' = a
         /\ IF a = "2xx"
            THEN /\ \E has \in SUBSET Range(Chunk) : out' = out \cup has
                 /\ asked' = asked \o Chunk
                 /\ next' = next + BatchSize /\ attempt' = 0 /\ UNCHANGED verdict
            ELSE /\ IF a \in Transient /\ MayTryAgain
                    THEN attempt' = attempt + 1 /\ UNCHANGED verdict
                    ELSE verdict' = Raised(a) /\ UNCHANGED attempt
                 /\ UNCHANGED <<out, asked, next>>
    /\ UNCHANGED wanted

Return ==
    /\ verdict = "busy" /\ next > Len(Unique)
    /\ verdict' = "ok"
    /\ UNCHANGED <<wanted, next, attempt, out, answer, asked>>

QNext == Request \/ Return

-----------------------------------------------------------------------------
(* A call that returns has asked for every token once, whatever repeats in the *)
(* input and wherever the batches end, so a token without a book is one the    *)
(* venue has no book for; a call that fails says why and has retried enough.   *)
BooksWhole ==
    /\ IsInjective(asked)
    /\ verdict = "ok" => Range(asked) = Range(wanted) \ {Absent}
    /\ verdict \notin {"busy", "ok"} =>
           /\ verdict = Raised(answer)
           /\ answer \in Transient => attempt = HttpRetries

-----------------------------------------------------------------------------
(* The inductive invariant: what was asked is the beginning of the tokens.     *)
AskedTo == IF next <= Len(Unique) THEN next - 1 ELSE Len(Unique)

RequestsInv ==
    /\ wanted \in Seq(QToken \cup {Absent})
    /\ next \in Nat \ {0} /\ attempt \in 0..HttpRetries
    /\ asked = SubSeq(Unique, 1, AskedTo)
    /\ verdict = "ok" => next > Len(Unique)
    /\ verdict \notin {"busy", "ok"} =>
           /\ verdict = Raised(answer)
           /\ answer \in Transient => attempt = HttpRetries
=============================================================================
