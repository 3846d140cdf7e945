-------------------------------- MODULE Risk --------------------------------
(***************************************************************************)
(* evaluate and aggregate (risk/engine.py, risk/scoring.py): the signals   *)
(* of the sender's approvals and of the inspected contracts, and the score *)
(* they add up to.  A signal is [code, score, cites].                      *)
(***************************************************************************)
EXTENDS Decoding, FiniteSetsExt

Points ==
    [UNLIMITED_TOKEN_APPROVAL |-> 30, NFT_OPERATOR_APPROVAL |-> 30, TOKEN_APPROVAL |-> 10,
     CONTRACT_SPENDER |-> 10, UNVERIFIED_TARGET |-> 12, APPROVAL_BY_OTHER_OWNER |-> 0,
     PROXY_DETECTED |-> 0, EXECUTION_STATUS |-> 0]

Signal(code, cites) == [code |-> code, score |-> Points[code], cites |-> cites]

(* grants_permission.                                                      *)
Grants(a) ==
    \/ a.standard = "ERC20" /\ a.amount # "zero"
    \/ a.standard = "ERC721" /\ a.spender # ZeroAddress
    \/ a.standard = "operator" /\ a.unlimited

Own(approvals) == {a \in approvals : a.role = "sender"}
Elsewhere(approvals) == {a \in approvals \ Own(approvals) : Grants(a)}

ApprovalSignals(a) ==
    IF a.standard = "ERC20" /\ a.unlimited THEN {Signal("UNLIMITED_TOKEN_APPROVAL", a.cites)}
    ELSE IF a.standard = "operator" /\ a.unlimited
      THEN {Signal("NFT_OPERATOR_APPROVAL", a.cites)}
    ELSE IF a.standard = "ERC20" /\ Grants(a) THEN {Signal("TOKEN_APPROVAL", a.cites)}
    ELSE {}

(* The first evidence id of a contract is the one of its bytecode.         *)
SpenderSignals(a, contracts) ==
    {Signal("CONTRACT_SPENDER", a.cites \cup ({<<"contract", "code">>} \cap c.cites)) :
        c \in {d \in contracts :
                 d.address = a.spender /\ d.kind = "contract" /\ Grants(a)}}

OtherOwners(approvals) ==
    IF Elsewhere(approvals) = {} THEN {}
    ELSE {Signal("APPROVAL_BY_OTHER_OWNER", UNION {a.cites : a \in Elsewhere(approvals)})}

TargetSignals(c, target) ==
    IF c.address = target /\ c.verification = "unverified"
      THEN {Signal("UNVERIFIED_TARGET", {<<"contract", "explorer">>} \cap c.cites)}
      ELSE {}

ProxySignals(c) ==
    IF c.proxy \in {"eip1967", "beacon"}
      THEN {Signal("PROXY_DETECTED", {<<"contract", "proxy">>} \cap c.cites)}
      ELSE {}

Evaluate(approvals, contracts, target) ==
    (UNION {ApprovalSignals(a) \cup SpenderSignals(a, contracts) : a \in Own(approvals)})
    \cup OtherOwners(approvals)
    \cup (UNION {TargetSignals(c, target) \cup ProxySignals(c) : c \in contracts})
    \cup {Signal("EXECUTION_STATUS", {<<"tx", "receipt">>})}

Weight(signals, code) == Max({s.score : s \in {t \in signals : t.code = code}})

(* Faulty variant: every signal counts, also repeated ones.                *)
ScoreOfAll(signals) ==
    LET total == MapThenSumSet(LAMBDA s : s.score, signals)
    IN  IF total < 100 THEN total ELSE 100

(* aggregate: one contribution per rule code, capped.                      *)
Score(signals) ==
    LET total == MapThenSumSet(LAMBDA code : Weight(signals, code), {s.code : s \in signals})
    IN  IF total < 100 THEN total ELSE 100

Level(score) ==
    IF score >= 80 THEN "critical" ELSE IF score >= 50 THEN "high"
    ELSE IF score >= 20 THEN "moderate" ELSE IF score > 0 THEN "low" ELSE "minimal"
===========================================================================
