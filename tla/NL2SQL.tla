------------------------------- MODULE NL2SQL -------------------------------
(* NL2SQLService.generate (agent/nl2sql.py) on top of the model gateway: a  *)
(* question is put to the model, its SQL is validated and run, an error is  *)
(* given back to the model for another try, and an empty result is given to *)
(* it for an explanation, while the table may be dropped.  A behaviour is    *)
(* either one question, or, as in the product, where nothing asks any, other *)
(* calls of the gateway and a client that reads the usage pages.             *)
EXTENDS UsageReport, Functions

CONSTANT SqlRetries   \* max_retries of the service

ASSUME SqlAssumption == SqlRetries \in Nat

VARIABLES q,        \* where the question is
          table,    \* the only table
          asked,    \* the calls it has made
          current,  \* the one it waits for
          tries,    \* attempt
          errors,   \* how many errors it has listed
          spent,    \* usage of the result
          verdict   \* status of the result

sqlVars == <<q, table, asked, current, tries, errors, spent, verdict>>
vars    == <<gatewayVars, reportVars, sqlVars>>

NoCall == "none"

TypeOK ==
  /\ GatewayTypeOK /\ ReportTypeOK
  /\ q \in {"off", "idle", "schema", "ask", "wait", "run", "classify", "explain", "raised", "done"}
  /\ table \in {"there", "dropped"}
  /\ asked \subseteq Calls /\ current \in Calls \cup {NoCall}
  /\ tries \in 0..(SqlRetries + 1) /\ errors \in 0..(SqlRetries + 1)
  /\ spent \in Nat
  /\ verdict \in {"none", "success", "empty_result", "failed"}

Init ==
  /\ GatewayInit /\ ReportInit
  /\ q \in {"off", "idle"} /\ table = "there" /\ asked = {} /\ current = NoCall
  /\ tries = 0 /\ errors = 0 /\ spent = 0 /\ verdict = "none"

Conclude(v) == verdict' = v /\ q' = "done"

\* The names of the tables; a blank question or no table is a failure at once.
ListTables ==
  /\ q = "idle"
  /\ \/ table = "there" /\ q' = "schema" /\ UNCHANGED verdict /\ UNCHANGED errors
     \/ Conclude("failed") /\ errors' = 1
  /\ UNCHANGED <<gatewayVars, table, asked, current, tries, spent>>

\* Their schemas: one that was dropped since is an error of the whole question.
ReadSchemas ==
  /\ q = "schema"
  /\ IF table = "there" THEN q' = "ask" /\ tries' = 1
                        ELSE q' = "raised" /\ UNCHANGED tries
  /\ UNCHANGED <<gatewayVars, table, asked, current, errors, spent, verdict>>

\* A call of the model, for SQL or to explain an empty result.
Ask ==
  /\ q \in {"ask", "classify"}
  /\ \E c \in Calls :
       Start(c, "json") /\ asked' = asked \cup {c} /\ current' = c
  /\ q' = IF q = "ask" THEN "wait" ELSE "explain"
  /\ UNCHANGED <<table, tries, errors, spent, verdict>>

ReplyUnpaid ==                                 \* mutant: usage of retries dropped
  /\ q = "wait" /\ pc[current] = "done"
  /\ IF outcome[current] = "ok"
     THEN q' = "run" /\ spent' = tokens[current]
     ELSE q' = "raised" /\ UNCHANGED spent
  /\ UNCHANGED <<gatewayVars, table, asked, current, tries, errors, verdict>>

\* Its answer; an error of the gateway leaves generate.
Reply ==
  /\ q = "wait" /\ pc[current] = "done"
  /\ IF outcome[current] = "ok"
     THEN q' = "run" /\ spent' = spent + tokens[current]
     ELSE q' = "raised" /\ UNCHANGED spent
  /\ UNCHANGED <<gatewayVars, table, asked, current, tries, errors, verdict>>

\* The SQL cannot be extracted, validated or run.
RunFails ==
  /\ q = "run" /\ errors' = errors + 1
  /\ IF tries > SqlRetries THEN Conclude("failed") /\ UNCHANGED tries
     ELSE q' = "ask" /\ tries' = tries + 1 /\ UNCHANGED verdict
  /\ UNCHANGED <<gatewayVars, table, asked, current, spent>>

\* It runs, on a table that is still there: rows are the answer.
RunReturns ==
  /\ q = "run" /\ table = "there"
  /\ \/ Conclude("success")
     \/ q' = "classify" /\ UNCHANGED verdict
  /\ UNCHANGED <<gatewayVars, table, asked, current, tries, errors, spent>>

\* No rows: the model has said why, or nothing that can be parsed.
Explain ==
  /\ q = "explain" /\ pc[current] = "done"
  /\ IF outcome[current] = "ok"
     THEN /\ spent' = spent + tokens[current]
          /\ \/ Conclude("empty_result") /\ UNCHANGED errors
             \/ Conclude("failed") /\ errors' = errors + 1
     ELSE q' = "raised" /\ UNCHANGED <<spent, errors, verdict>>
  /\ UNCHANGED <<gatewayVars, table, asked, current, tries>>

\* Cancelled outside a call of the model.
Interrupt ==
  /\ q \in {"schema", "run"} /\ q' = "raised"
  /\ UNCHANGED <<gatewayVars, table, asked, current, tries, errors, spent, verdict>>

DropTable ==
  /\ q # "off" /\ table = "there" /\ table' = "dropped"
  /\ UNCHANGED <<gatewayVars, q, asked, current, tries, errors, spent, verdict>>

Generate ==
  \/ ListTables \/ ReadSchemas \/ Ask \/ Reply \/ RunFails \/ RunReturns \/ Explain \/ Interrupt

\* Calls of the agent and of others.
Others == q = "off" /\ \E c \in Calls : (\E k \in Kinds : Start(c, k)) \/ EmbedNothing(c)

Next ==
  \/ (Generate \/ DropTable) /\ UNCHANGED reportVars
  \/ (Others \/ GatewayStep) /\ UNCHANGED <<reportVars, sqlVars>>
  \/ q = "off" /\ Read /\ UNCHANGED <<gatewayVars, sqlVars>>

Spec == Init /\ [][Next]_vars

-----------------------------------------------------------------------------
(* What a result promises.                                                 *)

\* The usage of a result is that of every call made for it, failed tries and
\* the explanation included, and the ledger says the same unless a record was
\* lost (NL2SQLResult.usage, usage_records).
SqlBooks ==
  verdict # "none" =>
    /\ spent = SumFunctionOnSet(tokens, asked)
    /\ (\A c \in asked : loss[c] = "none") =>
         spent = SumFunctionOnSet([r \in ledger |-> r.tokens],
                                  {r \in ledger : r.call \in asked})

\* Status, attempts and errors fit together and to the calls that were made: an
\* answer, empty or not, lists one error for each try before it; a failure lists
\* one for each try and comes after the last, or after an explanation that could
\* not be used, or at once with its only error.
SqlVerdict ==
  LET made == Cardinality(asked)
  IN  /\ verdict = "success" => errors = tries - 1 /\ made = tries
      /\ verdict = "empty_result" => errors = tries - 1 /\ made = tries + 1
      /\ verdict = "failed" =>
           \/ tries = 0 /\ errors = 1 /\ made = 0
           \/ errors = tries /\ made = tries + 1
           \/ errors = tries /\ made = tries /\ tries = SqlRetries + 1

\* Both: what a result says of the calls made for it is so (NL2SQLResult).
SqlResult == SqlBooks /\ SqlVerdict
=============================================================================
