--------------------------- MODULE MCRequestLedger ---------------------------
(***************************************************************************)
(* Three calls of two providers: one retried and priced, one that failed   *)
(* in a loop, one of another account whose line alone exceeds a file.      *)
(***************************************************************************)
EXTENDS RequestLedger

MCCalls == {"retried", "looped", "long"}

MCCallOf ==
    [retried |-> [provider |-> 1, model |-> 1, agent |-> 1, account |-> 1,
                  session |-> 1, status |-> 200, tokens |-> 3, latency |-> 2,
                  ttft |-> 1, priced |-> TRUE, cost |-> 2, attempt |-> 1,
                  looped |-> FALSE, decode_out |-> 1, decode_ms |-> 1],
     looped  |-> [provider |-> 2, model |-> 1, agent |-> 0, account |-> 0,
                  session |-> 0, status |-> 500, tokens |-> 1, latency |-> 3,
                  ttft |-> 0, priced |-> FALSE, cost |-> 0, attempt |-> 1,
                  looped |-> TRUE, decode_out |-> 0, decode_ms |-> 1],
     long    |-> [provider |-> 1, model |-> 2, agent |-> 0, account |-> 2,
                  session |-> 1, status |-> 200, tokens |-> 2, latency |-> 1,
                  ttft |-> 1, priced |-> TRUE, cost |-> 1, attempt |-> 0,
                  looped |-> FALSE, decode_out |-> 1, decode_ms |-> 0]]

MCLineSize == [retried |-> 1, looped |-> 1, long |-> 4]

MCPolicy == [body_age |-> 2, log_age |-> 1, rollup_age |-> 1]

\* Both days of the model's clock, as picked days.
MCFilters ==
    {[period |-> [kind |-> "days", first |-> 3, last |-> 4], day |-> Unset,
      provider |-> Unset, model |-> Unset, agent |-> Unset, account |-> Unset,
      failed |-> FALSE, retried |-> FALSE, query |-> Unset]}
=============================================================================
