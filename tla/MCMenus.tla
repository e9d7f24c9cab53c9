------------------------------ MODULE MCMenus ------------------------------
(* Instances of MnesiaTransaction whose functions make calls of one menu.  *)
EXTENDS MCTransaction

VARIABLE menu   \* the calls of this behaviour

\* Plain calls, or calls that make tables sticky: a table that becomes sticky
\* under plain calls of others costs them their isolation.
MenusInit == TxInit /\ menu \in {PlainCalls, StickyCalls}

OnMenu == \A p \in Pid : client'[p].calls > client[p].calls => client'[p].step \in menu

MenusSpec ==
    /\ MenusInit /\ [][TxNext /\ OnMenu /\ UNCHANGED menu]_<<txVars, menu>>
    /\ TxFairness

AllCalls == PlainCalls \cup StickyCalls
=============================================================================
