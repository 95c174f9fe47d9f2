---------------------------- MODULE MCAgentTurns ----------------------------
(***************************************************************************)
(* A chat agent that pays as "seller" while it answers a message, and an   *)
(* MCP server whose client signs and pushes; two tool calls in all.        *)
(***************************************************************************)
EXTENDS AgentTurns

MCCapabilities == [a \in Agents |-> {"sign", "broadcast"}]

MCActor == [t \in Txs |-> "seller"]

MCChatTools ==
    {[op |-> "submit", agent |-> "seller", chainOk |-> TRUE, tx |-> "pay"],
     [op |-> "query", agent |-> "seller", readOnly |-> TRUE]}

\* One of the configurations in use is for another chain.
MCMcpTools ==
    {[op |-> "sign", agent |-> "seller", chainOk |-> TRUE, tx |-> "pay"],
     [op |-> "sign", agent |-> "seller", chainOk |-> TRUE, tx |-> "ping"],
     [op |-> "push", agent |-> "seller", chainOk |-> TRUE],
     [op |-> "push", agent |-> "seller", chainOk |-> FALSE],
     [op |-> "whoami", agent |-> "seller", readOnly |-> TRUE]}

\* The lines those calls can write, when the clock stands still.
MCLines ==
    [op : {"sign", "submit"}, agent : Agents, nonce : Nonces, asked : {0}, expires : {Ttl},
     chainOk : BOOLEAN, tx : Txs]
    \cup [op : {"push"}, agent : Agents, nonce : Nonces, asked : {0}, expires : {Ttl},
          chainOk : BOOLEAN, signed : Signed]
    \cup [op : Reads, agent : Agents, asked : {0}, expires : {Ttl}, readOnly : BOOLEAN]
=============================================================================
