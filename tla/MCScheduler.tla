----------------------------- MODULE MCScheduler ------------------------------
(* The instance of MCRecovery with an API process.                           *)
EXTENDS Scheduler, TLC

CONSTANTS s1, camp, e1, e2, w1, w2, p1, p2,
          Crashes, LiveStalls, DbErrors, LostAcks, SlowSends, RedisLosses, Shutdowns

MCHourlyLimit == [s \in Senders |-> NoOverride]
MCProcOf == [w \in Workers |-> IF w = w1 THEN p1 ELSE p2]
OneCampaign == [e \in Emails |-> camp]
OneSender == [e \in Emails |-> s1]
InOrder == [e \in Emails |-> IF e = e1 THEN 1 ELSE 2]
MCMishaps == ("crash" :> Crashes) @@ ("liveStall" :> LiveStalls)
             @@ ("dbError" :> DbErrors) @@ ("lostAck" :> LostAcks)
MCEvents == ("slowSend" :> SlowSends) @@ ("redisLoss" :> RedisLosses)
            @@ ("shutdown" :> Shutdowns)
===============================================================================
