----------------------------- MODULE MCServices -----------------------------
(***************************************************************************)
(* The services around the ingestion core share no state that a property   *)
(* here speaks of, so one instance checks them side by side: the initial   *)
(* state chooses one of them, which then runs alone.                       *)
(***************************************************************************)
EXTENDS Sessions, Capacity, Governance, Conversation, AnswerCache, Ranking, Citations,
        Providers, Chunking, Agent, Memories, TLC

CONSTANTS a1, a2, a3, p1, p2, u1, u2, u3, w1, w2, b1, b2, r1, x1, x2, x3, x4, x5

VARIABLE focus

vars == <<sesVars, capVars, govVars, convVars,
          cacheVars, rankVars, citeVars, provVars, chunkVars, agentVars, memVars, focus>>

MCProcessOf == a1 :> p1 @@ a2 :> p2 @@ a3 :> p1
MCUserOf == [a \in Answers |-> "u"]
MCConversationOf == a1 :> "c" @@ a2 :> "c" @@ a3 :> "none"
MCFounder == [w \in Workspaces |-> u1]
MCOrgOf == [w \in Workspaces |-> "o"]
MCReaderOf == [a \in Askers |-> r1]
\* Two chunks of one section, and two pairs of near duplicates.
MCParent == x1 :> 1 @@ x2 :> 2 @@ x3 :> 3 @@ x4 :> 4 @@ x5 :> 2
MCText == x1 :> "A" @@ x2 :> "B" @@ x3 :> "C" @@ x4 :> "A" @@ x5 :> "C"
MCMatches == x1 :> 0 @@ x2 :> 0 @@ x3 :> 1 @@ x4 :> 2 @@ x5 :> 0
MCCost == "A" :> 9 @@ "B" :> 3 @@ "C" :> 4
\* Two routes with five chunks, or four routes with one each.
MCRouteLimits == {<<2, 0, 3, 0, 0>>, <<1, 1, 0, 1, 1>>}
\* Paragraphs that fit, that do not, and that do not but have a sentence that does.
MCShapes == UNION {[1..n -> {<<2>>, <<5>>, <<1, 4>>}] : n \in 0..2} \cup [1..3 -> {<<2>>, <<5>>}]
MCNoteLength == "long" :> 90 @@ "name" :> 20 @@ "word" :> 30 @@ "ask" :> 10
MCNoteHits == "long" :> 2 @@ "name" :> 0 @@ "word" :> 1 @@ "ask" :> 3
MCNoteStable == [n \in Notes |-> n = "name"]

ServicesInit ==
    /\ focus \in {"sessions", "capacity", "governance", "conversation",
                 "cache", "ranking", "citations", "providers", "chunking", "agent", "memory"}
    /\ SesInit /\ CapInit /\ ConvInit /\ CacheInit /\ RankInit
    \* The parts that do not run start in one state.
    /\ GovInit
    /\ role[w1][u3] = "none"
    /\ focus # "governance" => \A u \in Users : role[w1][u] \in {"owner", "none"}
    /\ CiteInit
    /\ focus # "citations" => mode = "rag" /\ ~quoting
    /\ mode # "rag" => ~quoting
    /\ ProvInit
    /\ focus # "providers" => hasFallback
    /\ ChunkInit
    /\ focus # "chunking" => strategy = "fixed" /\ overlap = 0
    /\ AgentInit
    /\ focus # "agent" => corpus = {}
    /\ MemInit
    /\ focus # "memory" => inbox = <<>> /\ broad

ServicesNext ==
    /\ UNCHANGED focus
    /\ \/ focus = "sessions" /\ SesNext
          /\ UNCHANGED <<capVars, govVars, convVars, cacheVars, rankVars, citeVars, provVars, chunkVars, agentVars, memVars>>
       \/ focus = "capacity" /\ CapNext
          /\ UNCHANGED <<sesVars, govVars, convVars, cacheVars, rankVars, citeVars, provVars, chunkVars, agentVars, memVars>>
       \/ focus = "governance" /\ GovNext
          /\ UNCHANGED <<sesVars, capVars, convVars, cacheVars, rankVars, citeVars, provVars, chunkVars, agentVars, memVars>>
       \/ focus = "conversation" /\ ConvNext
          /\ UNCHANGED <<sesVars, capVars, govVars, cacheVars, rankVars, citeVars, provVars, chunkVars, agentVars, memVars>>
       \/ focus = "cache" /\ CacheNext
          /\ UNCHANGED <<sesVars, capVars, govVars, convVars, rankVars, citeVars, provVars, chunkVars, agentVars, memVars>>
       \/ focus = "ranking" /\ RankNext
          /\ UNCHANGED <<sesVars, capVars, govVars, convVars, cacheVars, citeVars, provVars, chunkVars, agentVars, memVars>>
       \/ focus = "citations" /\ CiteNext
          /\ UNCHANGED <<sesVars, capVars, govVars, convVars, cacheVars, rankVars, provVars, chunkVars, agentVars, memVars>>
       \/ focus = "providers" /\ ProvNext
          /\ UNCHANGED <<sesVars, capVars, govVars, convVars, cacheVars, rankVars, citeVars, chunkVars, agentVars, memVars>>
       \/ focus = "chunking" /\ ChunkNext
          /\ UNCHANGED <<sesVars, capVars, govVars, convVars, cacheVars, rankVars, citeVars, provVars, agentVars, memVars>>
       \/ focus = "agent" /\ AgentNext
          /\ UNCHANGED <<sesVars, capVars, govVars, convVars, cacheVars, rankVars, citeVars, provVars, chunkVars, memVars>>
       \/ focus = "memory" /\ MemNext
          /\ UNCHANGED <<sesVars, capVars, govVars, convVars, cacheVars, rankVars, citeVars, provVars, chunkVars, agentVars>>

ServicesSpec == ServicesInit /\ [][ServicesNext]_vars /\ CapFairness

\* Every variable of every service keeps its type: among others, the breaker opens at its
\* threshold, never beyond it, and no session, slot, row or message takes an unknown form.
ServicesTypeOK ==
    /\ SesTypeOK /\ CapTypeOK /\ GovTypeOK /\ ConvTypeOK
    /\ CacheTypeOK /\ RankTypeOK /\ CiteTypeOK /\ ProvTypeOK
    /\ ChunkTypeOK /\ AgentTypeOK /\ MemTypeOK

=============================================================================
