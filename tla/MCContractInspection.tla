----------------------- MODULE MCContractInspection -----------------------
(* Two views of the provider's chain.  Three families of worlds: every     *)
(* pair of answers to the fetch; every change of an account between then   *)
(* and now; and every pair of logs of a transaction.                       *)
EXTENDS ContractInspection

Account(code, delegate, impl, beacon, behind) ==
    [code |-> code, delegate |-> delegate, impl |-> impl, beacon |-> beacon,
     behind |-> behind]
Plain(code, impl) == Account(code, None, impl, FALSE, None)
Beacon(behind) == Account("c1", None, None, TRUE, behind)
Delegated(to) == Account("to " \o to, to, None, FALSE, None)

Key == Plain("0x", None)
ProxyA == Plain("c1", "a")
Accounts == {Key, Delegated("a"), Delegated("b"), Plain("c1", None), ProxyA,
             Plain("c1", "b"), Plain("c2", "a"), Beacon("a"), Beacon("b"), Beacon(None)}

Log(signature, topics, data, amount, owner, spender) ==
    [signature |-> signature, topics |-> topics, data |-> data, amount |-> amount,
     padded |-> TRUE, owner |-> owner, spender |-> spender]
Allow(amount) == Log("approval", 3, "word", amount, "me", "S")

SomeLogs ==
    {Allow("zero"), Allow("finite"), Allow("cap96"), Allow("huge"),
     [Allow("finite") EXCEPT !.owner = "x"], [Allow("finite") EXCEPT !.spender = "O"],
     [Allow("finite") EXCEPT !.padded = FALSE],
     Log("approval", 4, "empty", "huge", "me", "S"),
     Log("approval", 4, "empty", "one", "S", ZeroAddress),
     Log("operator", 3, "word", "one", "me", "S"),
     Log("operator", 3, "word", "zero", "x", "S"),
     Log("operator", 3, "word", "finite", "me", "S"),
     Log("batch", 4, "pairs", "one", "me", "x"),
     Log("batch", 4, "other", "one", "me", "x"),
     Log("transfer", 3, "word", "finite", "me", "S")}

Transaction(recipient, status, logs) ==
    [sender |-> "me", recipient |-> recipient, created |-> IF recipient = None THEN "S" ELSE None,
     status |-> status, logs |-> logs]
Approving == Transaction("S", "success", <<Allow("huge")>>)

Mined(h) == [tx |-> "mined", hash |-> h]
Answers == {Mined("h"), Mined("g"), [tx |-> "pending", hash |-> "g"],
            [tx |-> "absent", hash |-> "g"], [tx |-> "absent", hash |-> NoHash]}
ByHash(h) == IF h = "h" THEN ProxyA ELSE Plain("c2", "b")

World(chain, budget, account, tx, beyond) ==
    [chain |-> chain, moves |-> budget, account |-> account, tx |-> tx, beyond |-> beyond]
Both(x) == [v \in Views |-> x]
Still == Both([then |-> ProxyA, latest |-> ProxyA])

MCWorlds ==
    {World(chain, 2, [v \in Views |-> [then |-> ByHash(chain[v].hash), latest |-> ByHash("h")]],
           Approving, FALSE) : chain \in [Views -> Answers]}
    \cup
    {World(Both(Mined("h")), 1,
           [v \in Views |-> [then |-> then, latest |-> IF v = 1 THEN first ELSE last]],
           Approving, FALSE) : then \in Accounts, first \in {Key, ProxyA}, last \in Accounts}
    \cup
    {World(Both(Mined("h")), 0, Still, Transaction(recipient, "success", logs), FALSE) :
        recipient \in {"S", "O", None},
        logs \in {<<>>, [n \in 1..3 |-> Allow("huge")]} \cup (SomeLogs \X SomeLogs)}
    \cup
    {World(Both(Mined("h")), 0, Still, Transaction("S", status, <<Allow("huge")>>), beyond) :
        status \in {"success", "failed", "missing"}, beyond \in BOOLEAN}
===========================================================================
