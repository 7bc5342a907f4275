---------------------------- MODULE MCResponses ----------------------------
(* Responses for answers of up to two messages.                           *)
EXTENDS Responses

\* Success and error codes, with or without details, price, authcode; the
\* tags of a message vary independently of its type.
ReadableMessages ==
    { m \in [type : {"info", "error", "ERROR"},
             has : SUBSET {"code", "details", "cost"} \union {{"code", "authcode", "docs"}},
             code : Codes, noSuchJob : BOOLEAN] :
        /\ "code" \notin m.has => m.code = AuthOk
        /\ "details" \notin m.has => ~m.noSuchJob }

UnreadableMessage ==
    [type |-> "unreadable", has |-> {}, code |-> AuthOk, noSuchJob |-> FALSE]

SomeMessages == ReadableMessages \union {UnreadableMessage}
===========================================================================
