---------------------------- MODULE MCEmailWorker -----------------------------
(* One sender and one campaign; slots and mishaps are chosen by each run.    *)
EXTENDS EmailWorker, TLC

CONSTANTS s1, camp, e1, e2, w1, w2, p1, p2,
          Crashes, LiveStalls, DbErrors, LostAcks

MCHourlyLimit == [s \in Senders |-> NoOverride]
MCProcOf == [w \in Workers |-> IF w = w1 THEN p1 ELSE p2]
OneCampaign == [e \in Emails |-> camp]
OneSender == [e \in Emails |-> s1]
MCMishaps == ("crash" :> Crashes) @@ ("liveStall" :> LiveStalls)
             @@ ("dbError" :> DbErrors) @@ ("lostAck" :> LostAcks)

\* The two processes, each with its slot, are interchangeable.
Exchange ==
  {f \in Permutations({w1, w2, p1, p2}) :
     /\ {f[w1], f[w2]} = {w1, w2}
     /\ f[p1] = MCProcOf[f[w1]] /\ f[p2] = MCProcOf[f[w2]]}
===============================================================================
