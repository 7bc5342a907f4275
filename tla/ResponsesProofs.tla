-------------------------- MODULE ResponsesProofs --------------------------
(***************************************************************************)
(* What the client promises about an answer, for any number of messages in *)
(* it, any codes, and any combination of values in a message.              *)
(***************************************************************************)
EXTENDS Responses, TLAPS

USE DEF vars

(* An answer of n messages is a sequence of n messages.                    *)
LEMMA MessageList ==
    ASSUME NEW n \in Nat, NEW ms \in [1 .. n -> Messages]
    PROVE  ms \in Seq(Messages) /\ Len(ms) = n
  OBVIOUS

-----------------------------------------------------------------------------
LEMMA NoBodyIsBody == NoBody \in Body /\ NoBody.messages = <<>> /\ Len(NoBody.messages) = 0
  BY DEF NoBody, Body, Forms

(* Type correctness, with what the type of a reachable state implies: the  *)
(* result is empty until there is an answer to read.                       *)
TypeInv ==
    /\ TypeOK
    /\ pc \in {"idle", "waiting"} =>
         /\ body = NoBody /\ next = 1 /\ parsed = NothingParsed
         /\ verdict = "pending"
    /\ pc = "reading" => verdict = "pending"

LEMMA TypeInvariance == Spec => []TypeInv
<1>1. Init => TypeInv
  <2> SUFFICES ASSUME Init PROVE TypeInv
    OBVIOUS
  <2> QED
    BY NoBodyIsBody DEF Init, TypeInv, TypeOK, NothingParsed, Readers, Verdicts
<1>2. TypeInv /\ [Next]_vars => TypeInv'
  <2> SUFFICES ASSUME TypeInv, [Next]_vars PROVE TypeInv'
    OBVIOUS
  <2> USE DEF TypeInv, TypeOK
  <2>1. ASSUME NEW r \in Readers, Request(r) PROVE TypeInv'
    BY <2>1 DEF Request
  <2>2. ASSUME Answer PROVE TypeInv'
    <3>0. PICK form \in Forms, named \in BOOLEAN, n \in 0 .. MaxMessages :
            \E messages \in [1 .. n -> Messages] :
              body' = [form |-> form, messages |-> messages, named |-> named]
      BY <2>2 DEF Answer
    <3>1. PICK messages \in [1 .. n -> Messages] :
            body' = [form |-> form, messages |-> messages, named |-> named]
      BY <3>0
    <3>2. n \in Nat
      BY ResponsesAssumption
    <3>3. messages \in Seq(Messages) /\ Len(messages) = n
      BY <3>2, MessageList
    <3>4. body' \in Body /\ body'.messages = messages
      BY <3>1, <3>3 DEF Body
    <3>5. pc' = "reading" /\ reader' \in Readers /\ verdict' = "pending"
      BY <2>2 DEF Answer
    <3>6. next' = 1 /\ parsed' = [tag \in Tags |-> 0]
      BY <2>2 DEF Answer, NothingParsed
    <3>7. next' \in 1 .. n + 1 /\ parsed' \in [Tags -> 0 .. n]
      BY <3>2, <3>6
    <3> QED
      BY <3>3, <3>4, <3>5, <3>7 DEF Verdicts
  <2>3. ASSUME TransportFails PROVE TypeInv'
    BY <2>3 DEF TransportFails, Verdicts
  <2>4. ASSUME Merge PROVE TypeInv'
    <3>1. Len(body.messages) \in Nat
      BY DEF Body
    <3>2. next \in 1 .. Len(body.messages) /\ body' = body /\ next' = next + 1
      BY <2>4 DEF Merge, Indices
    <3>3. next' \in 1 .. Len(body'.messages) + 1
      BY <3>1, <3>2
    <3>4. parsed' \in [Tags -> 0 .. Len(body'.messages)]
      BY <2>4, <3>1, <3>2 DEF Merge
    <3> QED
      BY <2>4, <3>2, <3>3, <3>4 DEF Merge
  <2>5. ASSUME Judge PROVE TypeInv'
    BY <2>5 DEF Judge, Outcome, JobStatus, Verdicts
  <2>6. ASSUME Return PROVE TypeInv'
    <3>1. body' \in Body /\ Len(body'.messages) = 0
      BY <2>6, NoBodyIsBody DEF Return
    <3>2. next' = 1 /\ parsed' = [tag \in Tags |-> 0]
      BY <2>6 DEF Return, NothingParsed
    <3>3. next' \in 1 .. Len(body'.messages) + 1 /\ parsed' \in [Tags -> 0 .. Len(body'.messages)]
      BY <3>1, <3>2
    <3> QED
      BY <2>6, <3>1, <3>3 DEF Return, Readers, Verdicts
  <2>7. CASE UNCHANGED vars
    BY <2>7
  <2> QED
    BY <2>1, <2>2, <2>3, <2>4, <2>5, <2>6, <2>7 DEF Next
<1> QED
  BY <1>1, <1>2, PTL DEF Spec

(* An answer is read without ever pointing outside it, whatever its        *)
(* length: every promoted value has a message it came from.                *)
THEOREM TypeCorrect == Spec => []TypeOK
  BY TypeInvariance, PTL DEF TypeInv

-----------------------------------------------------------------------------
(* The loop invariant of parse_response: after next - 1 messages, each     *)
(* value is that of the first of them that offers it.                      *)
Offering(tag) == {i \in 1 .. next - 1 : Offers(body.messages[i], tag)}

LoopInv ==
    pc \in {"reading", "done"} /\ Parses =>
        \A tag \in Tags : IsFirst(parsed[tag], Offering(tag))

(* What LetterStream can send in each form.                                *)
FormInv ==
    /\ body.form \notin {"xml", "json"} => body.messages = <<>>
    /\ body.form # "json" => \A i \in Indices : body.messages[i].type # "unreadable"

(* The verdict is that of the rules, on the whole of the answer.           *)
VerdictInv ==
    pc = "done" =>
        \/ body = NoBody /\ verdict = "error"
        \/ /\ Parses => next \notin Indices
           /\ verdict = Outcome(reader, body, parsed)

IInv == TypeInv /\ LoopInv /\ FormInv /\ VerdictInv

(* One turn of the loop keeps its invariant: the message it merges comes   *)
(* after all those already merged.                                         *)
LEMMA MergeKeepsFirst ==
    ASSUME TypeInv, LoopInv, Merge
    PROVE  LoopInv'
<1> USE DEF TypeInv, TypeOK
<1>1. next \in Nat /\ next > 0 /\ next' = next + 1 /\ body' = body
  BY DEF Merge, Indices, Body
<1>2. SUFFICES ASSUME NEW tag \in Tags
               PROVE  IsFirst(parsed'[tag], Offering(tag)')
  BY DEF LoopInv
<1> DEFINE m == body.messages[next]
           O == Offering(tag)
<1>3. IsFirst(parsed[tag], O)
  BY DEF Merge, LoopInv
<1>4. Offering(tag)' = IF Offers(m, tag) THEN O \union {next} ELSE O
  BY <1>1 DEF Offering
<1>5. \A i \in O : i \in Nat /\ 0 < i /\ i < next
  BY <1>1 DEF Offering
<1>6. parsed'[tag] = IF parsed[tag] = 0 /\ Offers(m, tag) THEN next ELSE parsed[tag]
  BY DEF Merge
<1> HIDE DEF m, O
<1> QED
  BY <1>1, <1>3, <1>4, <1>5, <1>6 DEF IsFirst

LEMMA Invariance == Spec => []IInv
<1>1. Init => LoopInv /\ FormInv /\ VerdictInv
  BY DEF Init, LoopInv, FormInv, VerdictInv, NoBody, Indices
<1>2. TypeInv /\ LoopInv /\ FormInv /\ VerdictInv /\ [Next]_vars
        => LoopInv' /\ FormInv' /\ VerdictInv'
  <2> SUFFICES ASSUME TypeInv, LoopInv, FormInv, VerdictInv, [Next]_vars
               PROVE  LoopInv' /\ FormInv' /\ VerdictInv'
    OBVIOUS
  <2>1. ASSUME NEW r \in Readers, Request(r)
        PROVE  LoopInv' /\ FormInv' /\ VerdictInv'
    BY <2>1 DEF Request, LoopInv, FormInv, VerdictInv, Indices
  <2>2. ASSUME Answer PROVE LoopInv' /\ FormInv' /\ VerdictInv'
    <3>1. next' = 1 /\ parsed' = [tag \in Tags |-> 0] /\ pc' = "reading"
      BY <2>2 DEF Answer, TypeInv, NothingParsed
    <3>2. \A tag \in Tags : Offering(tag)' = {} /\ parsed'[tag] = 0
      BY <3>1 DEF Offering
    <3>3. LoopInv'
      BY <3>2 DEF LoopInv, IsFirst
    <3>4. FormInv'
      <4>0. PICK form \in Forms, named \in BOOLEAN, n \in 0 .. MaxMessages :
              /\ form \notin {"xml", "json"} => n = 0
              /\ \E messages \in [1 .. n -> Messages] :
                   /\ form # "json" =>
                        \A i \in 1 .. n : messages[i].type # "unreadable"
                   /\ body' = [form |-> form, messages |-> messages, named |-> named]
        BY <2>2 DEF Answer
      <4>1. PICK messages \in [1 .. n -> Messages] :
              /\ form # "json" =>
                   \A i \in 1 .. n : messages[i].type # "unreadable"
              /\ body' = [form |-> form, messages |-> messages, named |-> named]
        BY <4>0
      <4>2. n \in Nat
        BY ResponsesAssumption
      <4>3. messages \in Seq(Messages) /\ Len(messages) = n
        BY <4>2, MessageList
      <4>4. n = 0 => messages = <<>>
        BY <4>3
      <4>5. body'.form = form /\ body'.messages = messages
        BY <4>1
      <4> QED
        BY <4>0, <4>1, <4>3, <4>4, <4>5 DEF FormInv, Indices
    <3> QED
      BY <3>1, <3>3, <3>4 DEF VerdictInv
  <2>3. ASSUME TransportFails PROVE LoopInv' /\ FormInv' /\ VerdictInv'
    BY <2>3 DEF TransportFails, TypeInv, LoopInv, FormInv, VerdictInv,
                Parses, NoBody, Indices
  <2>4. ASSUME Merge PROVE LoopInv' /\ FormInv' /\ VerdictInv'
    <3>1. LoopInv'
      BY <2>4, MergeKeepsFirst
    <3> QED
      BY <2>4, <3>1 DEF Merge, FormInv, VerdictInv, Indices
  <2>5. ASSUME Judge PROVE LoopInv' /\ FormInv' /\ VerdictInv'
    BY <2>5 DEF Judge, LoopInv, FormInv, VerdictInv, Parses, Offering, Indices
  <2>6. ASSUME Return PROVE LoopInv' /\ FormInv' /\ VerdictInv'
    BY <2>6 DEF Return, LoopInv, FormInv, VerdictInv, NoBody, Indices
  <2>7. CASE UNCHANGED vars
    BY <2>7 DEF LoopInv, FormInv, VerdictInv, Parses, Offering, Indices
  <2> QED
    BY <2>1, <2>2, <2>3, <2>4, <2>5, <2>6, <2>7 DEF Next
<1> QED
  BY <1>1, <1>2, TypeInvariance, PTL DEF Spec, IInv

(* When the loop has ended, it has seen all the messages.                  *)
LEMMA AllMerged ==
    ASSUME TypeInv, Merged
    PROVE  1 .. next - 1 = Indices
  BY DEF TypeInv, TypeOK, Merged, Indices, Body

(* Whatever messages an answer has, in whatever order, each value of the   *)
(* result but the price is that of the first message that carries it.      *)
THEOREM Promotion == Spec => []PromotedIsFirst
<1>1. IInv => PromotedIsFirst
  <2> SUFFICES ASSUME IInv, Merged, NEW tag \in Tags \ {"cost"}
               PROVE  IsFirst(parsed[tag], {i \in Indices : tag \in body.messages[i].has})
    BY DEF PromotedIsFirst
  <2>1. IsFirst(parsed[tag], Offering(tag))
    BY DEF IInv, LoopInv, Merged
  <2>2. Offering(tag) = {i \in Indices : tag \in body.messages[i].has}
    BY AllMerged DEF IInv, Offering, Offers
  <2> QED
    BY <2>1, <2>2
<1> QED
  BY <1>1, Invariance, PTL

(* The price the gate quotes is never that of an acknowledgement, and a    *)
(* price of the batch is never lost behind one.                            *)
THEOREM Quote == Spec => []QuoteIsTheBatchPrice
<1>1. IInv => QuoteIsTheBatchPrice
  <2> SUFFICES ASSUME IInv, Merged
               PROVE  IsFirst(parsed["cost"],
                              {i \in Indices : /\ "cost" \in body.messages[i].has
                                               /\ ~ /\ "code" \in body.messages[i].has
                                                    /\ body.messages[i].code = AuthOk})
    BY DEF QuoteIsTheBatchPrice
  <2>1. IsFirst(parsed["cost"], Offering("cost"))
    BY DEF IInv, LoopInv, Merged, Tags
  <2>2. Offering("cost") = {i \in Indices : /\ "cost" \in body.messages[i].has
                                           /\ ~ /\ "code" \in body.messages[i].has
                                                /\ body.messages[i].code = AuthOk}
    BY AllMerged DEF IInv, Offering, Offers, Acknowledges
  <2> QED
    BY <2>1, <2>2
<1> QED
  BY <1>1, Invariance, PTL

(* No method takes an answer it cannot read for a success, or for the news *)
(* that a job does not exist.                                              *)
THEOREM NoFalseSuccess == Spec => []UnreadableIsNoSuccess
<1>1. IInv => UnreadableIsNoSuccess
  <2> SUFFICES ASSUME IInv, pc = "done", Unreadable
               PROVE  verdict \notin {"ok", "absent"}
    BY DEF UnreadableIsNoSuccess
  <2>1. body.form = "xml" /\ body.messages = <<>> => parsed["code"] = 0
    BY DEF IInv, TypeInv, TypeOK, Tags
  <2>2. reader \in Readers
    BY DEF IInv, TypeInv, TypeOK
  <2> QED
    BY <2>1, <2>2 DEF IInv, VerdictInv, Unreadable, Outcome, JobStatus, SaysNoSuchJob,
        Refuses, RaisesApiError, AccountFails, TrackingFails, RaisesJsonApiError,
        RaisesXmlError, IsPdf, Readers
<1> QED
  BY <1>1, Invariance, PTL

(* An account, tracking or PreFlight lookup that succeeds has seen no      *)
(* error and no unreadable entry in any message of the answer.             *)
THEOREM NothingMasked == Spec => []ErrorsAreNotMasked
<1>1. IInv => ErrorsAreNotMasked
  <2> SUFFICES ASSUME IInv, pc = "done", verdict = "ok",
                      reader \in {"account", "tracking", "preflight"},
                      NEW i \in Indices
               PROVE  body.messages[i].type = "info"
    BY DEF ErrorsAreNotMasked
  <2>1. ~Refuses(reader, body, parsed)
    BY DEF IInv, VerdictInv, Outcome
  <2>2. body.messages[i].type \in Types
    BY ResponsesAssumption DEF IInv, TypeInv, TypeOK, Body, Indices, Message
  <2>3. ~IsPdf(body)
    <3>1. body.messages # <<>>
      BY DEF Indices
    <3> QED
      BY <3>1 DEF IInv, FormInv, IsPdf
  <2>4. ~HasErrors(body.messages)
    BY <2>1, <2>3 DEF Refuses, AccountFails, TrackingFails, RaisesJsonApiError, RaisesXmlError
  <2>5. body.messages[i].type \notin {"error", "ERROR"}
    BY <2>4 DEF HasErrors, IsErrorType, Indices
  <2>6. body.messages[i].type # "unreadable"
    BY <2>1, <2>3 DEF IInv, FormInv, Refuses, TrackingFails, RaisesJsonApiError, AccountFails,
                     RaisesApiError, Indices
  <2> QED
    BY <2>2, <2>5, <2>6 DEF Types
<1> QED
  BY <1>1, Invariance, PTL

(* Tracking gives one verdict on the same messages in JSON and in XML.     *)
THEOREM OnePredicate == Spec => []FormatsAgree
<1>1. IInv => FormatsAgree
  <2> SUFFICES ASSUME IInv, pc = "done", reader = "tracking", body.form \in {"xml", "json"},
                      \A i \in Indices : body.messages[i].type # "unreadable",
                      NEW other \in {"xml", "json"}
               PROVE  verdict = "ok" <=> ~TrackingFails([body EXCEPT !.form = other])
    BY DEF FormatsAgree
  <2> DEFINE b == [body EXCEPT !.form = other]
  <2>1. b.form = other /\ b.messages = body.messages
    BY DEF IInv, TypeInv, TypeOK, Body
  <2>2. verdict = "ok" <=> ~TrackingFails(body)
    BY DEF IInv, VerdictInv, NoBody, Outcome, Refuses
  <2> HIDE DEF b
  <2>3. TrackingFails(b) <=> TrackingFails(body)
    BY <2>1 DEF TrackingFails, RaisesJsonApiError, RaisesXmlError, HasErrors, Indices
  <2> QED
    BY <2>2, <2>3 DEF b
<1> QED
  BY <1>1, Invariance, PTL
=============================================================================
