----------------------------- MODULE Responses -----------------------------
(***************************************************************************)
(* How the client reads one answer of LetterStream: parse_response merges  *)
(* the messages of an XML answer into one result, and each method of       *)
(* LetterStreamClient then decides whether the answer is a success.        *)
(*                                                                         *)
(* A text of an answer is abstracted to what the code tells apart.  A      *)
(* value is represented by the place it was read from: parsed[tag] is the  *)
(* index of the message whose <tag> was promoted to the result, 0 when     *)
(* there is none.                                                          *)
(***************************************************************************)
EXTENDS Naturals, Sequences

CONSTANTS
    Codes,          \* the response codes LetterStream may send
    SuccessCodes,   \* SUCCESS_CODES
    AuthOk,         \* CODE_AUTH_OK, the acknowledgement of the credentials
    Messages,       \* the messages an answer may be made of
    MaxMessages     \* bound: the most messages of one answer

(* The client methods that read an answer; "status" is job_status together *)
(* with interpret_job_status, "proof" is document_proof_pdf.               *)
Readers == {"submit", "release", "account", "status", "tracking", "proof",
            "preflight"}

(* Forms of a body: "xml" parses, "json" is what json.loads accepts, a PDF *)
(* is raw or in base64; "text" is any other body, well-formed or not.      *)
Forms == {"xml", "json", "pdf", "base64 pdf", "text"}

(* The children of a message that are read; has "docs" when a <doc> is.    *)
Tags == {"code", "details", "batch", "quantity", "authcode", "cost"}

(* "ERROR" stands for every other spelling of the type "error", "info" for *)
(* any other type and for none, "unreadable" for a JSON entry, attribute   *)
(* or type that is not of the expected kind.                               *)
Types == {"info", "error", "ERROR", "unreadable"}

(* code and noSuchJob (the details contain one of _ABSENT_PHRASES) mean    *)
(* something only when the message has that tag.                           *)
Message == [type : Types, has : SUBSET (Tags \cup {"docs"}),
            code : Codes, noSuchJob : BOOLEAN]

(* No messages in a JSON body: it is not an object with a message list.    *)
(* named: the job asked about is mentioned somewhere in the answer.        *)
Body == [form : Forms, messages : Seq(Messages), named : BOOLEAN]

ASSUME ResponsesAssumption ==
    /\ AuthOk \in SuccessCodes
    /\ SuccessCodes \subseteq Codes
    /\ Messages \subseteq Message
    /\ MaxMessages \in Nat

VARIABLES
    pc,       \* where the call is: "idle", "waiting", "reading" or "done"
    reader,   \* the method that was called
    body,     \* the answer, once it is there
    next,     \* the message parse_response merges next
    parsed,   \* the result of parse_response so far
    verdict   \* what the caller is told

vars == <<pc, reader, body, next, parsed, verdict>>

Verdicts == {"pending", "ok", "error", "exists", "absent", "unknown"}

NothingParsed == [tag \in Tags |-> 0]
NoBody == [form |-> "text", messages |-> <<>>, named |-> FALSE]

Indices == 1 .. Len(body.messages)

-----------------------------------------------------------------------------
(* The rules, for a body b and its result p.                               *)

Acknowledges(m) == "code" \in m.has /\ m.code = AuthOk

(* (variant) The price of an acknowledgement counts too.                   *)
OffersEverything(m, tag) == tag \in m.has

(* A message offers each value it has, except the price of an              *)
(* acknowledgement.                                                        *)
Offers(m, tag) == tag \in m.has /\ (tag = "cost" => ~Acknowledges(m))

IsErrorType(type) == type \in {"error", "ERROR"}

HasErrors(messages) ==
    \E i \in 1 .. Len(messages) : IsErrorType(messages[i].type)

(* raise_for_api_error judges by the promoted code alone.                  *)
PromotedCode(b, p) == b.messages[p["code"]].code

RaisesApiError(b, p) ==
    \/ b.form # "xml"
    \/ p["code"] = 0
    \/ PromotedCode(b, p) \notin SuccessCodes

RaisesJsonApiError(b) ==
    \/ b.messages = <<>>
    \/ \E i \in 1 .. Len(b.messages) : b.messages[i].type = "unreadable"
    \/ HasErrors(b.messages)

(* (variant) An answer without messages is a success.                      *)
RaisesXmlErrorUnlessEmpty(b) == b.form # "xml" \/ HasErrors(b.messages)

(* (variant) The XML path compares the type as it is spelled.              *)
RaisesXmlErrorAsSpelled(b) ==
    \/ b.form # "xml"
    \/ b.messages = <<>>
    \/ \E i \in 1 .. Len(b.messages) : b.messages[i].type = "error"

(* The XML fallback of tracking.                                           *)
RaisesXmlError(b) ==
    \/ b.form # "xml"
    \/ b.messages = <<>>
    \/ HasErrors(b.messages)

TrackingFails(b) ==
    IF b.form = "json" THEN RaisesJsonApiError(b) ELSE RaisesXmlError(b)

(* (variant) account_status without its scan of the messages.              *)
AccountFailsByCode(b, p) == RaisesApiError(b, p)

AccountFails(b, p) == RaisesApiError(b, p) \/ HasErrors(b.messages)

IsPdf(b) == b.form \in {"pdf", "base64 pdf"}

(* interpret_job_status: the details that count are the promoted ones.     *)
SaysNoSuchJob(b, p) ==
    /\ b.form = "xml"
    /\ p["details"] # 0 /\ b.messages[p["details"]].noSuchJob
    /\ p["code"] # 0
    /\ \/ PromotedCode(b, p) \notin SuccessCodes
       \/ \A i \in 1 .. Len(b.messages) : "docs" \notin b.messages[i].has

JobStatus(b, p) ==
    IF b.named THEN "exists" ELSE IF SaysNoSuchJob(b, p) THEN "absent" ELSE "unknown"

Refuses(r, b, p) ==
    \/ r \in {"submit", "release"} /\ RaisesApiError(b, p)
    \/ r = "account" /\ AccountFails(b, p)
    \/ r = "tracking" /\ TrackingFails(b)
    \/ r \in {"proof", "preflight"} /\ ~IsPdf(b)

(* What the method returns, "ok" standing for the answer itself.           *)
Outcome(r, b, p) ==
    IF r = "status" THEN JobStatus(b, p)
    ELSE IF Refuses(r, b, p) THEN "error" ELSE "ok"

-----------------------------------------------------------------------------
Init ==
    /\ pc = "idle"
    /\ reader = "status"
    /\ body = NoBody
    /\ next = 1
    /\ parsed = NothingParsed
    /\ verdict = "pending"

(* A client method is called and sends its request.                        *)
Request(r) ==
    /\ pc = "idle"
    /\ pc' = "waiting"
    /\ reader' = r
    /\ UNCHANGED <<body, next, parsed, verdict>>

(* LetterStream answers (external).  Only JSON can carry an unreadable     *)
(* entry: an XML attribute is a string or absent.                          *)
Answer ==
    /\ pc = "waiting"
    /\ \E form \in Forms, named \in BOOLEAN, n \in 0 .. MaxMessages :
         /\ form \notin {"xml", "json"} => n = 0
         /\ \E messages \in [1 .. n -> Messages] :
              /\ form # "json" =>
                   \A i \in 1 .. n : messages[i].type # "unreadable"
              /\ body' = [form |-> form, messages |-> messages, named |-> named]
    /\ pc' = "reading"
    /\ UNCHANGED <<reader, next, parsed, verdict>>

(* No answer, or an HTTP error: the transport raises TransportError.       *)
TransportFails ==
    /\ pc = "waiting"
    /\ verdict' = "error"
    /\ pc' = "done"
    /\ UNCHANGED <<reader, body, next, parsed>>

(* parse_response runs on XML only, and document_proof_pdf never calls it. *)
Parses == body.form = "xml" /\ reader # "proof"

(* (variant) A later message overwrites what an earlier one supplied.      *)
MergeLast ==
    /\ pc = "reading" /\ Parses
    /\ next \in Indices
    /\ parsed' = [tag \in Tags |->
                    IF Offers(body.messages[next], tag) THEN next ELSE parsed[tag]]
    /\ next' = next + 1
    /\ UNCHANGED <<pc, reader, body, verdict>>

(* (variant) The result points one message too far.                        *)
MergeOffByOne ==
    /\ pc = "reading" /\ Parses
    /\ next \in Indices
    /\ next' = next + 1
    /\ parsed' = [tag \in Tags |->
                    IF parsed[tag] = 0 /\ Offers(body.messages[next], tag)
                    THEN next' ELSE parsed[tag]]
    /\ UNCHANGED <<pc, reader, body, verdict>>

(* One turn of the merging loop: values already there stay.                *)
Merge ==
    /\ pc = "reading" /\ Parses
    /\ next \in Indices
    /\ parsed' = [tag \in Tags |->
                    IF parsed[tag] = 0 /\ Offers(body.messages[next], tag)
                    THEN next ELSE parsed[tag]]
    /\ next' = next + 1
    /\ UNCHANGED <<pc, reader, body, verdict>>

(* The method raises or returns.                                           *)
Judge ==
    /\ pc = "reading"
    /\ Parses => next \notin Indices
    /\ verdict' = Outcome(reader, body, parsed)
    /\ pc' = "done"
    /\ UNCHANGED <<reader, body, next, parsed>>

(* The caller goes on; the next call starts afresh.                        *)
Return ==
    /\ pc = "done"
    /\ pc' = "idle"
    /\ reader' = "status"
    /\ body' = NoBody
    /\ next' = 1
    /\ parsed' = NothingParsed
    /\ verdict' = "pending"

Next ==
    \/ \E r \in Readers : Request(r)
    \/ Answer
    \/ TransportFails
    \/ Merge
    \/ Judge
    \/ Return

Spec == Init /\ [][Next]_vars

-----------------------------------------------------------------------------
(* Values have their types; an index points at a message of the answer.    *)
TypeOK ==
    /\ pc \in {"idle", "waiting", "reading", "done"}
    /\ reader \in Readers
    /\ body \in Body
    /\ next \in 1 .. Len(body.messages) + 1
    /\ parsed \in [Tags -> 0 .. Len(body.messages)]
    /\ verdict \in Verdicts

(* k is the first of the places S, 0 when there is none.                   *)
IsFirst(k, S) == IF S = {} THEN k = 0 ELSE k \in S /\ \A i \in S : k <= i

Merged == pc \in {"reading", "done"} /\ Parses /\ next \notin Indices

(* Every value parse_response promotes is that of the first message that   *)
(* carries it (client.py, parse_response), whatever message each of the    *)
(* other values came from.  The price is the exception below.              *)
PromotedIsFirst ==
    Merged => \A tag \in Tags \ {"cost"} :
                IsFirst(parsed[tag], {i \in Indices : tag \in body.messages[i].has})

(* The price, from which the gate takes the quote and its ceiling, is the  *)
(* first one that is not the price of an acknowledgement: "-199 messages   *)
(* echo an authorisation acknowledgement rather than a batch price".  An   *)
(* acknowledgement in front neither supplies the quote nor hides it.       *)
QuoteIsTheBatchPrice ==
    Merged => IsFirst(parsed["cost"],
                      {i \in Indices : /\ "cost" \in body.messages[i].has
                                       /\ ~ /\ "code" \in body.messages[i].has
                                            /\ body.messages[i].code = AuthOk})

(* An answer nobody can read: not of a form the reader understands, or     *)
(* without a single message.                                               *)
Unreadable ==
    /\ reader \in {"proof", "preflight"} => body.form \notin {"pdf", "base64 pdf"}
    /\ reader = "tracking" => body.form \notin {"xml", "json"} \/ body.messages = <<>>
    /\ reader \in {"submit", "release", "account", "status"} =>
         body.form # "xml" \/ body.messages = <<>>

(* Such an answer is never a success to any of the seven methods, and      *)
(* never tells the gate that a job is absent, which would let it submit    *)
(* the letter again.                                                       *)
UnreadableIsNoSuccess ==
    pc = "done" /\ Unreadable => verdict \notin {"ok", "absent"}

(* Among the lookups, no success is reported over an error entry anywhere  *)
(* in the answer, in whatever spelling, nor over an entry whose type       *)
(* cannot be read: a leading AUTHOK does not mask what follows it.         *)
ErrorsAreNotMasked ==
    pc = "done" /\ verdict = "ok" /\ reader \in {"account", "tracking", "preflight"} =>
        \A i \in Indices : body.messages[i].type = "info"

(* Tracking gives the same verdict on the same messages, whether           *)
(* LetterStream sends them as JSON or as XML (_is_error_type: the two      *)
(* paths "must agree on what counts as an error").                         *)
FormatsAgree ==
    /\ pc = "done" /\ reader = "tracking" /\ body.form \in {"xml", "json"}
    /\ \A i \in Indices : body.messages[i].type # "unreadable"
    => LET other == IF body.form = "xml" THEN "json" ELSE "xml"
       IN  verdict = "ok" <=> ~TrackingFails([body EXCEPT !.form = other])
=============================================================================
