--------------------------- MODULE ErrorClassifier --------------------------
(***************************************************************************)
(* The error classifier (internal/delivery/error_classifier.go) and what   *)
(* is done with its verdict: the status of the delivery (mapSMTPError) and *)
(* the report to the reputation tracker (RecordDeliveryAttempt).           *)
(*                                                                         *)
(* The text of a reply is the set of the groups of keywords that occur in  *)
(* it; the wording of the message for the caller is left out.  "blacklist" *)
(* and "poor reputation" are in two groups.                                *)
(***************************************************************************)
EXTENDS Integers

(* Keywords: strongKeywords, weakKeywords, ipSignals, greylistKeywords,    *)
(* and the words of ShouldDeactivateEmail.                                 *)
Keywords == {"strong", "weak", "signal", "greylist", "relay", "user", "mailbox",
             "recipient", "not found", "unknown", "does not exist"}

Categories == {"temporary", "permanent", "greylist", "network", "throttled",
               "reputation"}

Class(code, n) == code >= n * 100 /\ code < (n + 1) * 100

(* ipQuoted: the reply quotes the source IP, which is not empty.           *)
hasIPScopedSignal(words, ipQuoted) == ipQuoted \/ "signal" \in words

\* Mutant of isReputationError: a weak keyword counts without an IP signal.
isReputationErrorUnscoped(code, words, ipQuoted) ==
  CASE "strong" \in words -> "strong"
    [] "strong" \notin words /\ Class(code, 5) /\ "weak" \in words -> "weak"
    [] OTHER -> "no"

isReputationError(code, words, ipQuoted) ==
  CASE "strong" \in words -> "strong"
    [] /\ "strong" \notin words
       /\ Class(code, 5) /\ "weak" \in words /\ hasIPScopedSignal(words, ipQuoted)
         -> "weak"
    [] OTHER -> "no"

isGreylistResponse(words) == "greylist" \in words

(* Every error without a code is a network error.                          *)
classifyNetworkError == [category |-> "network", immediate |-> FALSE]

(* A success is no error, and is found before any word is looked at.       *)
NoError == [category |-> "none", immediate |-> FALSE]

classifySMTPCode(code, words, ipQuoted) ==
  LET reputation == isReputationError(code, words, ipQuoted)
      Verdict(c) == [category |-> c, immediate |-> FALSE]
  IN CASE Class(code, 2) -> NoError
       [] ~Class(code, 2) /\ reputation # "no" ->
            [category |-> "reputation", immediate |-> reputation = "strong"]
       [] Class(code, 4) /\ reputation = "no" /\ isGreylistResponse(words) ->
            Verdict("greylist")
       [] Class(code, 4) /\ reputation = "no" /\ ~isGreylistResponse(words) ->
            Verdict("temporary")
       [] Class(code, 5) /\ reputation = "no" -> Verdict("permanent")
       [] OTHER -> Verdict("network")

ClassifyError(code, words, ipQuoted) ==
  IF code = 0 THEN classifyNetworkError
              ELSE classifySMTPCode(code, words, ipQuoted)

IsRetryable(category) ==
  category \in {"temporary", "greylist", "network", "throttled", "reputation"}

ShouldDeactivateEmail(category, code, words) ==
  /\ category = "permanent"
  /\ \/ /\ code = 550
        /\ \/ "user" \in words /\ words \cap {"not found", "unknown"} # {}
           \/ "mailbox" \in words /\ words \cap {"not found", "does not exist"} # {}
           \/ "recipient" \in words /\ words \cap {"not found", "unknown"} # {}
     \/ code = 553 /\ "relay" \notin words

(* The status mapSMTPError gives an attempt that failed, unless a message  *)
(* was sent in full and no reply came.                                     *)
StatusOf(code, words, ipQuoted, isBindError) ==
  LET category == ClassifyError(code, words, ipQuoted).category
  IN CASE category = "none" -> "error"
       [] category # "none" /\ code >= 500 -> "hard_bounce"
       [] category # "none" /\ code > 0 /\ code < 500 -> "temp_fail"
       [] OTHER -> IF isBindError THEN "error" ELSE "timeout"

(* What RecordDeliveryAttempt tells the tracker of that attempt.           *)
ReportOf(code, words, ipQuoted) ==
  LET verdict == ClassifyError(code, words, ipQuoted)
  IN CASE verdict.category # "reputation" -> "nothing"
       [] verdict.category = "reputation" /\ verdict.immediate -> "strong"
       [] OTHER -> "weak"

(***************************************************************************)
(* The verdicts on the replies that matter: no code, and codes of every    *)
(* class with those the code singles out, with any keywords.               *)
(***************************************************************************)
Codes == {0, 110, 250, 251, 354, 421, 451, 499, 500, 550, 553, 599, 600}

(* A verdict is sound if an address is given up only after a hard bounce   *)
(* that says nothing about the sending IP and that the caller is not told  *)
(* to retry; if the IP is blamed only by a refusal that names a blocklist  *)
(* or, for good, refers to the IP; if words in a success are held against  *)
(* nobody; and if a temporary failure may be retried.                      *)
Sound(code, words, quoted, bind) ==
  LET category == ClassifyError(code, words, quoted).category
      status == StatusOf(code, words, quoted, bind)
      report == ReportOf(code, words, quoted)
  IN /\ ShouldDeactivateEmail(category, code, words) =>
          status = "hard_bounce" /\ report = "nothing" /\ ~IsRetryable(category)
     /\ report # "nothing" =>
          "strong" \in words \/ (status = "hard_bounce" /\ (quoted \/ "signal" \in words))
     /\ code \div 100 = 2 => report = "nothing" /\ category = "none"
     /\ status = "temp_fail" => IsRetryable(category)

(* The replies that are judged wrongly, with the report made of them.      *)
Misjudged ==
  {[code |-> r[1], words |-> r[2], report |-> ReportOf(r[1], r[2], r[3])] :
     r \in {q \in Codes \X (SUBSET Keywords) \X BOOLEAN :
             \E bind \in BOOLEAN : ~Sound(q[1], q[2], q[3], bind)}}
=============================================================================
