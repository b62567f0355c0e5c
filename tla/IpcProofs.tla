------------------------------ MODULE IpcProofs ------------------------------
(***************************************************************************)
(* Proofs about Ipc, for every set of pids, descriptors and pipes and any  *)
(* capacity.                                                               *)
(***************************************************************************)
EXTENDS Ipc, TLAPS, WellFoundedInduction, FiniteSetTheorems

\* What agent[p] is where no agent is at work.
Untraced == {NoAgent, Loading, Inert}

\* TypeOK in parts, for proofs that need one of them.  The read channels,
\* which no other part looks at, are kept apart.
AliveOK   == alive \subseteq Pids
FileOK    == file \in [Pids -> Files]
AgentOK   == agent \in [Pids -> Caches \union Untraced]
TracingOK == tracing \subseteq Pids
CallOK    == call \in [Pids -> Calls]
TracerOK  == tracer \in [Pids -> Pids \union {NoPid}]
StoppedOK == stopped \subseteq Pids
DataOK    == data \in [Pipes -> Seq(Requests)]
ImagesOK  == images \in 0..MaxImages
PastOK    == past \in [Pids -> Histories]
ReadersOK == readers \in [Pids -> SUBSET Fds]

Types == /\ AliveOK /\ FileOK /\ AgentOK /\ TracingOK /\ CallOK
         /\ TracerOK /\ StoppedOK /\ DataOK /\ ImagesOK /\ PastOK

\* A pid without a process has nothing.
Dead ==
  \A p \in Pids \ alive :
    /\ file[p] = Empty /\ agent[p] = NoAgent /\ call[p] = Idle
    /\ tracer[p] = NoPid /\ p \notin stopped

\* The places of a write() that is on its way through Inject().
Injecting == {"inject", "create", "attached", "loading", "tell"}

\* A process inside a call has the file of the call open.
HasFile(p) ==
  call[p].at \notin {"run", "forked"} => file[p][call[p].fd] # NoFile

CallHasFile == \A p \in Pids : HasFile(p)

\* Only an agent waits in popen() or goes through Inject(), and the channel it
\* has in hand there has a remote process.
HasChannel(p) ==
  /\ call[p].at \in Injecting \union {"popen"} => Traced(p)
  /\ call[p].at \in Injecting =>
       Channel(p) \in Channels /\ Channel(p).remote \in Pids

CallHasChannel == \A p \in Pids : HasChannel(p)

\* Only a channel with a remote process has been injected through.
InjectedOK(p) ==
  \A fd \in Fds :
    Traced(p) /\ agent[p][fd] # NoChannel /\ agent[p][fd].injected
      => agent[p][fd].remote \in Pids

InjectedHasRemote == \A p \in Pids : InjectedOK(p)

\* Nobody is attached to itself.
NotItself == \A p \in Pids : tracer[p] # p

Shape == /\ Types /\ Dead /\ CallHasFile /\ CallHasChannel
         /\ InjectedHasRemote /\ NotItself

-----------------------------------------------------------------------------
(* What the operators of Ipc return.                                       *)

LEMMA TypesIsTypeOK == Types /\ ReadersOK <=> TypeOK
  BY DEF Types, TypeOK, AliveOK, FileOK, AgentOK, TracingOK, CallOK, TracerOK,
         StoppedOK, DataOK, ImagesOK, PastOK, ReadersOK, Untraced

LEMMA MinIsMember ==
  ASSUME NEW S \in SUBSET Nat, S # {}
  PROVE  Min(S) \in S
  <1>1. PICK x \in S : \A y \in S : ~ (<<y, x>> \in OpToRel(<, Nat))
    BY NatLessThanWellFounded, WFMin
  <1>2. \A y \in S : y < x => <<y, x>> \in OpToRel(<, Nat)
    BY DEF OpToRel
  <1>3. \A y \in S : ~ (y < x)
    BY <1>1, <1>2, Zenon
  <1>4. \A y \in S : x =< y
    BY <1>3
  <1>5. QED BY <1>4 DEF Min

LEMMA MinOfPids ==
  ASSUME NEW S \in SUBSET Pids, S # {}
  PROVE  Min(S) \in S
  BY MinIsMember, IpcAssumption

LEMMA MinOfFds ==
  ASSUME NEW S \in SUBSET Fds, S # {}
  PROVE  Min(S) \in S
  BY MinIsMember, IpcAssumption

LEMMA RemotePidType ==
  ASSUME AliveOK, NEW p \in Pids, NEW pipe
  PROVE  RemotePid(p, pipe) \in Pids \union {NoPid}
  <1> DEFINE others == Holders(pipe, {"r", "w"}) \ {p}
  <1>1. others \subseteq Pids
    BY DEF AliveOK, Holders
  <1>2. CASE others = {}
    BY <1>2 DEF RemotePid
  <1>3. CASE others # {}
    BY <1>1, <1>3, MinOfPids DEF RemotePid
  <1>4. QED BY <1>2, <1>3

LEMMA FilesType ==
  ASSUME NEW f \in Files, NEW fd \in Fds
  PROVE  /\ f[fd] # NoFile => f[fd] \in Ends /\ f[fd].pipe \in Pipes
         /\ \A e \in Ends \union {NoFile} :
              /\ [f EXCEPT ![fd] = e] \in Files
              /\ [f EXCEPT ![fd] = e][fd] = e
              /\ \A g \in Fds \ {fd} : [f EXCEPT ![fd] = e][g] = f[g]
  BY DEF Files, Ends

LEMMA EmptyType == Empty \in Files /\ \A fd \in Fds : Empty[fd] = NoFile
  BY DEF Empty, Files

LEMMA EndType ==
  ASSUME NEW pipe \in Pipes, NEW dir \in {"r", "w"}, NEW stream \in BOOLEAN
  PROVE  /\ End(pipe, dir, stream) \in Ends
         /\ End(pipe, dir, stream).pipe = pipe
         /\ End(pipe, dir, stream) # NoFile
  BY IpcAssumption DEF End, Ends

\* What a channel write does to a cache.
LEMMA CachesType ==
  ASSUME NEW c \in Caches, NEW fd \in Fds
  PROVE  /\ c \notin Untraced
         /\ c[fd] # NoChannel => c[fd] \in Channels
         /\ \A x \in Channels \union {NoChannel} :
              /\ [c EXCEPT ![fd] = x] \in Caches
              /\ [c EXCEPT ![fd] = x][fd] = x
              /\ \A g \in Fds \ {fd} : [c EXCEPT ![fd] = x][g] = c[g]
  BY IpcAssumption DEF Caches, Untraced

LEMMA NoCacheType ==
  /\ NoCache \in Caches
  /\ NoCache \notin Untraced
  /\ \A fd \in Fds : NoCache[fd] = NoChannel
  BY IpcAssumption DEF NoCache, Caches, Untraced

LEMMA TracedType ==
  ASSUME AgentOK, NEW p \in Pids
  PROVE  Traced(p) <=> agent[p] \in Caches
  BY IpcAssumption DEF AgentOK, Traced, Untraced

\* Setting the flag of a channel leaves the remote process and the pipe.
LEMMA InjectedChannel ==
  ASSUME NEW c \in Channels
  PROVE  /\ [c EXCEPT !.injected = TRUE] \in Channels
         /\ [c EXCEPT !.injected = TRUE] # NoChannel
         /\ [c EXCEPT !.injected = TRUE].remote = c.remote
         /\ [c EXCEPT !.injected = TRUE].pipe = c.pipe
  BY IpcAssumption DEF Channels

\* The channel GetChannel() returns: a cached one, or one for the open file.
LEMMA WriteChannelType ==
  ASSUME Shape, NEW p \in Pids, NEW fd \in Fds, Traced(p),
         file[p][fd] # NoFile
  PROVE  /\ WriteChannel(p, fd) \in Channels
         /\ WriteChannel(p, fd) # NoChannel
         /\ WriteChannel(p, fd).remote \in Pids \union {NoPid}
         /\ WriteChannel(p, fd).injected => WriteChannel(p, fd).remote \in Pids
         /\ agent[p][fd] = NoChannel
              => WriteChannel(p, fd).pipe = file[p][fd].pipe
         /\ agent[p][fd] # NoChannel => WriteChannel(p, fd) = agent[p][fd]
  <1>1. Types /\ InjectedHasRemote
    BY DEF Shape
  <1>2. CASE agent[p][fd] # NoChannel
    <2>1. agent[p][fd] \in Channels
      BY <1>1, <1>2, TracedType, CachesType DEF Types
    <2>2. QED BY <1>1, <1>2, <2>1 DEF WriteChannel, Channels, InjectedHasRemote,
                                  InjectedOK
  <1>3. CASE agent[p][fd] = NoChannel
    <2>1. file[p][fd].pipe \in Pipes
      BY <1>1, FilesType DEF Types, FileOK
    <2>2. RemotePid(p, file[p][fd].pipe) \in Pids \union {NoPid}
      BY <1>1, RemotePidType DEF Types
    <2>3. WriteChannel(p, fd) = [remote |-> RemotePid(p, file[p][fd].pipe),
                                 injected |-> FALSE,
                                 pipe |-> file[p][fd].pipe]
      BY <1>3 DEF WriteChannel
    <2>4. /\ WriteChannel(p, fd) \in Channels
          /\ WriteChannel(p, fd).remote \in Pids \union {NoPid}
          /\ ~ WriteChannel(p, fd).injected
          /\ WriteChannel(p, fd).pipe = file[p][fd].pipe
      BY <2>1, <2>2, <2>3 DEF Channels
    <2>5. QED BY <1>3, <2>4, IpcAssumption
  <1>4. QED BY <1>2, <1>3

SenderPlaces == Injecting \union {"write"}

LEMMA CallTypes ==
  /\ Idle \in Calls /\ Idle.at = "run"
  /\ [at |-> "forked"] \in Calls
  /\ Untold \in Requests
  /\ \A fd \in Fds, place \in SenderPlaces, told \in Requests :
       [at |-> place, fd |-> fd, told |-> told] \in Calls
  /\ \A fd \in Fds, place \in {"read", "popen"} :
       [at |-> place, fd |-> fd] \in Calls
  BY IpcAssumption DEF Calls, Idle, Untold, Requests, SenderPlaces, Injecting

LEMMA CallFields ==
  ASSUME NEW c \in Calls
  PROVE  /\ c.at \notin {"run", "forked"} => c.fd \in Fds
         /\ c.at \in SenderPlaces => c.told \in Requests
  BY DEF Calls, SenderPlaces, Injecting

LEMMA CallMoves ==
  ASSUME NEW c \in Calls, c.at \in SenderPlaces,
         NEW place \in SenderPlaces, NEW told \in Requests
  PROVE  /\ [c EXCEPT !.at = place] \in Calls
         /\ [c EXCEPT !.at = place].at = place
         /\ [c EXCEPT !.at = place].fd = c.fd
         /\ [c EXCEPT !.at = place].told = c.told
         /\ [c EXCEPT !.at = place, !.told = told] \in Calls
         /\ [c EXCEPT !.at = place, !.told = told].at = place
         /\ [c EXCEPT !.at = place, !.told = told].fd = c.fd
         /\ [c EXCEPT !.at = place, !.told = told].told = told
  BY DEF Calls, SenderPlaces, Injecting

LEMMA HistoryMoves ==
  ASSUME NEW h \in Histories, NEW b \in BOOLEAN, NEW S \in SUBSET Fds
  PROVE  /\ [h EXCEPT !.asked = b] \in Histories
         /\ [h EXCEPT !.hushed = TRUE] \in Histories
         /\ [h EXCEPT !.unseen = S] \in Histories
         /\ h.unseen \in SUBSET Fds
  BY DEF Histories

LEMMA UnbornType == Unborn \in Histories
  BY IpcAssumption DEF Unborn, Histories

LEMMA BirthType ==
  ASSUME ImagesOK, images < MaxImages
  PROVE  /\ Birth \in Histories
         /\ images + 1 \in 0..MaxImages
  <1>1. images + 1 \in 0..MaxImages
    BY IpcAssumption DEF ImagesOK
  <1>2. \A h \in Histories, i \in 0..MaxImages :
          [h EXCEPT !.image = i] \in Histories
    BY DEF Histories
  <1>3. QED BY <1>1, <1>2, UnbornType DEF Birth

-----------------------------------------------------------------------------
(* What a step does to the calls.                                          *)

OtherCallsKeep(p) == \A q \in Pids \ {p} : call'[q] = call[q]

LEMMA GotoEffect ==
  ASSUME CallOK, NEW p \in Pids, call[p].at \in SenderPlaces,
         NEW place \in SenderPlaces, Goto(p, place)
  PROVE  /\ CallOK' /\ OtherCallsKeep(p)
         /\ call'[p].at = place /\ call'[p].fd = call[p].fd
         /\ call'[p].told = call[p].told
         /\ call[p].fd \in Fds /\ call[p].told \in Requests
  <1>1. call[p] \in Calls
    BY DEF CallOK
  <1>2. call[p].told \in Requests /\ call[p].fd \in Fds
    BY <1>1, CallFields DEF SenderPlaces, Injecting
  <1>3. call' = [call EXCEPT ![p] = [call[p] EXCEPT !.at = place]]
    BY DEF Goto
  <1>4. [call[p] EXCEPT !.at = place] \in Calls
    BY <1>1, <1>2, CallMoves
  <1>5. call'[p] = [call[p] EXCEPT !.at = place]
    BY <1>3 DEF CallOK
  <1>6. QED BY <1>1, <1>2, <1>3, <1>4, <1>5, CallMoves DEF CallOK, OtherCallsKeep

LEMMA CallSet ==
  ASSUME CallOK, NEW p \in Pids, NEW c \in Calls,
         call' = [call EXCEPT ![p] = c]
  PROVE  CallOK' /\ call'[p] = c /\ OtherCallsKeep(p)
  BY DEF CallOK, OtherCallsKeep

\* A process of which the step changes neither the call nor what the call
\* has in hand.
LEMMA HasFileKept ==
  ASSUME NEW q \in Pids, HasFile(q), call'[q] = call[q], file'[q] = file[q]
  PROVE  HasFile(q)'
  BY DEF HasFile

LEMMA HasChannelKept ==
  ASSUME NEW q \in Pids, HasChannel(q), call'[q] = call[q],
         agent'[q] = agent[q]
  PROVE  HasChannel(q)'
  BY DEF HasChannel, Channel, Traced

LEMMA InjectedKept ==
  ASSUME NEW q \in Pids, InjectedOK(q), agent'[q] = agent[q]
  PROVE  InjectedOK(q)'
  BY DEF InjectedOK, Traced

LEMMA AtRest ==
  ASSUME NEW q \in Pids
  PROVE  /\ call'[q].at \in {"run", "forked"} => HasFile(q)'
         /\ call'[q].at \in {"run", "forked", "write", "read"} => HasChannel(q)'
  BY DEF HasFile, HasChannel, Injecting

LEMMA NoAgentInjected ==
  ASSUME NEW q \in Pids, agent'[q] \in Untraced \union {NoCache}
  PROVE  InjectedOK(q)'
  BY NoCacheType DEF InjectedOK, Traced, Untraced

OtherAgentsKeep(p) == \A q \in Pids \ {p} : agent'[q] = agent[q]

LEMMA AgentSet ==
  ASSUME AgentOK, NEW p \in Pids, NEW a \in Caches \union Untraced,
         agent' = [agent EXCEPT ![p] = a]
  PROVE  AgentOK' /\ agent'[p] = a /\ OtherAgentsKeep(p)
  BY DEF AgentOK, OtherAgentsKeep

\* One write channel of p is set.
LEMMA ChannelSet ==
  ASSUME AgentOK, NEW p \in Pids, Traced(p), NEW fd \in Fds,
         NEW x \in Channels \union {NoChannel},
         agent' = [agent EXCEPT ![p] = [agent[p] EXCEPT ![fd] = x]]
  PROVE  /\ AgentOK' /\ OtherAgentsKeep(p) /\ Traced(p)'
         /\ agent'[p][fd] = x
         /\ \A g \in Fds \ {fd} : agent'[p][g] = agent[p][g]
  <1>1. agent[p] \in Caches
    BY TracedType
  <1>2. /\ [agent[p] EXCEPT ![fd] = x] \in Caches
        /\ [agent[p] EXCEPT ![fd] = x][fd] = x
        /\ \A g \in Fds \ {fd} : [agent[p] EXCEPT ![fd] = x][g] = agent[p][g]
    BY <1>1, CachesType
  <1>3. AgentOK' /\ agent'[p] = [agent[p] EXCEPT ![fd] = x] /\ OtherAgentsKeep(p)
    BY <1>2, AgentSet
  <1>4. Traced(p)'
    BY <1>2, <1>3, CachesType DEF Traced, Untraced
  <1>5. QED BY <1>2, <1>3, <1>4

\* A new library, or a new program, has no agent at work yet.
LEMMA LoadEffect ==
  ASSUME AgentOK, NEW q \in Pids, Load(q) \/ Unload(q)
  PROVE  /\ AgentOK' /\ OtherAgentsKeep(q)
         /\ Load(q) => agent'[q] = Loading
         /\ Unload(q) => agent'[q] = NoAgent
         /\ ~ Traced(q)' /\ InjectedOK(q)'
  <1>1. /\ AgentOK' /\ agent'[q] \in Untraced /\ OtherAgentsKeep(q)
        /\ Load(q) => agent'[q] = Loading
        /\ Unload(q) => agent'[q] = NoAgent
    BY AgentSet DEF Load, Unload, Untraced
  <1>2. QED BY <1>1, NoAgentInjected DEF Traced, Untraced

-----------------------------------------------------------------------------
(* Every action keeps the shape.                                           *)

LEMMA LoadByHandShape ==
  ASSUME Shape, NEW p \in Pids, LoadByHand(p)
  PROVE  Shape'
  <1> USE DEF Shape, Types
  <1>1. AliveOK' /\ FileOK' /\ TracingOK' /\ CallOK' /\ TracerOK' /\ StoppedOK'
          /\ DataOK' /\ ImagesOK' /\ PastOK'
    BY DEF LoadByHand, AliveOK, FileOK, TracingOK, CallOK, TracerOK, StoppedOK,
           DataOK, ImagesOK, PastOK
  <1>2. AgentOK' /\ OtherAgentsKeep(p) /\ InjectedOK(p)'
    BY LoadEffect DEF LoadByHand
  <1>3. Dead'
    BY <1>2 DEF LoadByHand, At, Running, Dead, OtherAgentsKeep
  <1>4. CallHasFile'
    BY HasFileKept DEF LoadByHand, CallHasFile
  <1>5. CallHasChannel'
    <2>1. HasChannel(p)'
      BY AtRest DEF LoadByHand, At
    <2>2. \A q \in Pids \ {p} : HasChannel(q)'
      BY <1>2, HasChannelKept DEF LoadByHand, CallHasChannel, OtherAgentsKeep
    <2>3. QED BY <2>1, <2>2 DEF CallHasChannel
  <1>6. InjectedHasRemote'
    BY <1>2, InjectedKept DEF InjectedHasRemote, OtherAgentsKeep
  <1>7. NotItself'
    BY DEF LoadByHand, NotItself
  <1>8. QED BY <1>1, <1>2, <1>3, <1>4, <1>5, <1>6, <1>7

LEMMA ConstructShape ==
  ASSUME Shape, NEW q \in Pids, Construct(q) \/ Decline(q)
  PROVE  Shape'
  <1> USE DEF Shape, Types
  <1>1. AliveOK' /\ FileOK' /\ TracingOK' /\ CallOK' /\ TracerOK' /\ StoppedOK'
          /\ DataOK' /\ ImagesOK' /\ PastOK'
    BY DEF Construct, Decline, AliveOK, FileOK, TracingOK, CallOK, TracerOK,
           StoppedOK, DataOK, ImagesOK, PastOK
  <1>2. AgentOK' /\ agent'[q] \in Untraced \union {NoCache} /\ OtherAgentsKeep(q)
    BY AgentSet, NoCacheType DEF Construct, Decline, Untraced
  <1>3. ~ Traced(q) /\ call' = call /\ file' = file /\ q \in alive
    BY DEF Construct, Decline, Constructing, Traced
  <1>4. Dead'
    BY <1>2, <1>3 DEF Construct, Decline, Dead, OtherAgentsKeep
  <1>5. CallHasFile'
    BY <1>3, HasFileKept DEF CallHasFile
  <1>6. CallHasChannel'
    <2>1. HasChannel(q)'
      BY <1>3 DEF CallHasChannel, HasChannel
    <2>2. \A r \in Pids \ {q} : HasChannel(r)'
      BY <1>2, <1>3, HasChannelKept DEF CallHasChannel, OtherAgentsKeep
    <2>3. QED BY <2>1, <2>2 DEF CallHasChannel
  <1>7. InjectedHasRemote'
    BY <1>2, InjectedKept, NoAgentInjected DEF InjectedHasRemote, OtherAgentsKeep
  <1>8. NotItself'
    BY DEF Construct, Decline, NotItself
  <1>9. QED BY <1>1, <1>2, <1>4, <1>5, <1>6, <1>7, <1>8

LEMMA PipeCallShape ==
  ASSUME Shape, NEW p \in Pids, PipeCall(p)
  PROVE  Shape'
  <1> USE DEF Shape, Types
  <1>1. AliveOK' /\ AgentOK' /\ TracingOK' /\ CallOK' /\ TracerOK' /\ StoppedOK'
          /\ ImagesOK' /\ PastOK'
    BY DEF PipeCall, AliveOK, AgentOK, TracingOK, CallOK, TracerOK, StoppedOK,
           ImagesOK, PastOK
  <1> DEFINE r == Min(FreeFds(p))
             w == Min(FreeFds(p) \ {r})
  <1>2. PICK pipe \in FreePipes :
          /\ file' = [file EXCEPT ![p][r] = End(pipe, "r", FALSE),
                                  ![p][w] = End(pipe, "w", FALSE)]
          /\ data' = [data EXCEPT ![pipe] = <<>>]
    BY DEF PipeCall
  <1>3. r \in Fds /\ w \in Fds /\ pipe \in Pipes
    <2>1. FreeFds(p) \subseteq Fds /\ FreeFds(p) # {}
      <3>1. Cardinality({}) = 0
        BY FS_EmptySet
      <3>2. FreeFds(p) \subseteq Fds
        BY DEF FreeFds
      <3>3. FreeFds(p) = {} => Cardinality(FreeFds(p)) = 0
        BY <3>1
      <3>4. Cardinality(FreeFds(p)) >= 2
        BY DEF PipeCall
      <3>5. QED BY <3>2, <3>3, <3>4
    <2>2. r \in FreeFds(p)
      BY <2>1, MinOfFds
    <2>3. FreeFds(p) \ {r} # {}
      <3>1. SUFFICES ASSUME FreeFds(p) = {r} PROVE FALSE
        BY <2>2
      <3>2. Cardinality(FreeFds(p)) = 1
        BY <3>1, FS_Singleton
      <3>3. QED BY <3>2 DEF PipeCall
    <2>4. w \in FreeFds(p)
      BY <2>1, <2>3, MinOfFds
    <2>5. QED BY <2>1, <2>2, <2>4 DEF FreePipes
  <1>4. FileOK' /\ \A q \in Pids \ {p} : file'[q] = file[q]
    <2>1. file[p] \in Files
      BY DEF FileOK
    <2>2. [[file[p] EXCEPT ![r] = End(pipe, "r", FALSE)]
             EXCEPT ![w] = End(pipe, "w", FALSE)] \in Files
      BY <1>3, <2>1, EndType, FilesType
    <2>3. file' = [file EXCEPT ![p] =
                     [[file[p] EXCEPT ![r] = End(pipe, "r", FALSE)]
                        EXCEPT ![w] = End(pipe, "w", FALSE)]]
      BY <1>2 DEF FileOK
    <2>4. QED BY <2>2, <2>3 DEF FileOK
  <1>5. DataOK'
    BY <1>2, <1>3 DEF DataOK
  <1>6. Dead'
    BY <1>4 DEF PipeCall, At, Running, Dead, AliveOK
  <1>7. CallHasFile'
    <2>1. HasFile(p)'
      BY AtRest DEF PipeCall, At
    <2>2. \A q \in Pids \ {p} : HasFile(q)'
      BY <1>4, HasFileKept DEF PipeCall, CallHasFile
    <2>3. QED BY <2>1, <2>2 DEF CallHasFile
  <1>8. CallHasChannel'
    BY HasChannelKept DEF PipeCall, CallHasChannel
  <1>9. InjectedHasRemote'
    BY InjectedKept DEF PipeCall, InjectedHasRemote
  <1>10. NotItself'
    BY DEF PipeCall, NotItself
  <1>11. QED BY <1>1, <1>4, <1>5, <1>6, <1>7, <1>8, <1>9, <1>10

LEMMA CloseShape ==
  ASSUME Shape, NEW p \in Pids, NEW fd \in Fds, Close(p, fd)
  PROVE  Shape'
  <1> USE DEF Shape, Types
  <1>1. AliveOK' /\ TracingOK' /\ CallOK' /\ TracerOK' /\ StoppedOK' /\ DataOK'
          /\ ImagesOK'
    BY DEF Close, AliveOK, TracingOK, CallOK, TracerOK, StoppedOK, DataOK,
           ImagesOK
  <1>2. FileOK' /\ \A q \in Pids \ {p} : file'[q] = file[q]
    <2>1. file[p] \in Files
      BY DEF FileOK
    <2>2. [file[p] EXCEPT ![fd] = NoFile] \in Files
      BY <2>1, FilesType
    <2>3. file' = [file EXCEPT ![p] = [file[p] EXCEPT ![fd] = NoFile]]
      BY DEF Close
    <2>4. QED BY <2>2, <2>3 DEF FileOK
  <1>3. AgentOK' /\ OtherAgentsKeep(p) /\ InjectedOK(p)' /\ PastOK'
    <2>1. CASE Traced(p)
      <3>1. /\ agent' = [agent EXCEPT
                           ![p] = [agent[p] EXCEPT ![fd] = NoChannel]]
            /\ past' = [past EXCEPT ![p].unseen = @ \ {fd}]
        BY <2>1 DEF Close, CloseChannel
      <3>2. /\ AgentOK' /\ OtherAgentsKeep(p)
            /\ agent'[p][fd] = NoChannel
            /\ \A g \in Fds \ {fd} : agent'[p][g] = agent[p][g]
        BY <2>1, <3>1, ChannelSet
      <3>3. InjectedOK(p)'
        BY <2>1, <3>2 DEF InjectedHasRemote, InjectedOK
      <3>4. PastOK'
        <4>1. past[p] \in Histories /\ past[p].unseen \in SUBSET Fds
          BY HistoryMoves DEF PastOK
        <4>2. [past[p] EXCEPT !.unseen = past[p].unseen \ {fd}] \in Histories
          BY <4>1, HistoryMoves
        <4>3. QED BY <3>1, <4>2 DEF PastOK
      <3>5. QED BY <3>2, <3>3, <3>4
    <2>2. CASE ~ Traced(p)
      BY <2>2, InjectedKept
         DEF Close, AgentOK, PastOK, OtherAgentsKeep, InjectedHasRemote
    <2>3. QED BY <2>1, <2>2
  <1>4. Dead'
    BY <1>2, <1>3 DEF Close, At, Running, Dead, OtherAgentsKeep
  <1>5. CallHasFile'
    <2>1. HasFile(p)'
      BY AtRest DEF Close, At
    <2>2. \A q \in Pids \ {p} : HasFile(q)'
      BY <1>2, HasFileKept DEF Close, CallHasFile
    <2>3. QED BY <2>1, <2>2 DEF CallHasFile
  <1>6. CallHasChannel'
    <2>1. HasChannel(p)'
      BY AtRest DEF Close, At
    <2>2. \A q \in Pids \ {p} : HasChannel(q)'
      BY <1>3, HasChannelKept DEF Close, CallHasChannel, OtherAgentsKeep
    <2>3. QED BY <2>1, <2>2 DEF CallHasChannel
  <1>7. InjectedHasRemote'
    BY <1>3, InjectedKept DEF InjectedHasRemote, OtherAgentsKeep
  <1>8. NotItself'
    BY DEF Close, NotItself
  <1>9. QED BY <1>1, <1>2, <1>3, <1>4, <1>5, <1>6, <1>7, <1>8

LEMMA PcloseShape ==
  ASSUME Shape, NEW p \in Pids, NEW fd \in Fds, Pclose(p, fd)
  PROVE  Shape'
  <1> USE DEF Shape, Types
  <1>1. AliveOK' /\ AgentOK' /\ TracingOK' /\ CallOK' /\ TracerOK' /\ StoppedOK'
          /\ DataOK' /\ ImagesOK'
    BY DEF Pclose, AliveOK, AgentOK, TracingOK, CallOK, TracerOK, StoppedOK,
           DataOK, ImagesOK
  <1>2. FileOK' /\ \A q \in Pids \ {p} : file'[q] = file[q]
    <2>1. file[p] \in Files
      BY DEF FileOK
    <2>2. [file[p] EXCEPT ![fd] = NoFile] \in Files
      BY <2>1, FilesType
    <2>3. file' = [file EXCEPT ![p] = [file[p] EXCEPT ![fd] = NoFile]]
      BY DEF Pclose
    <2>4. QED BY <2>2, <2>3 DEF FileOK
  <1>3. PastOK'
    <2>1. past[p] \in Histories /\ past[p].unseen \in SUBSET Fds
      BY HistoryMoves DEF PastOK
    <2>2. [past[p] EXCEPT !.unseen = past[p].unseen \union {fd}] \in Histories
      BY <2>1, HistoryMoves
    <2>3. QED BY <2>2 DEF Pclose, PastOK
  <1>4. Dead'
    BY <1>2 DEF Pclose, At, Running, Dead
  <1>5. CallHasFile'
    <2>1. HasFile(p)'
      BY AtRest DEF Pclose, At
    <2>2. \A q \in Pids \ {p} : HasFile(q)'
      BY <1>2, HasFileKept DEF Pclose, CallHasFile
    <2>3. QED BY <2>1, <2>2 DEF CallHasFile
  <1>6. CallHasChannel'
    BY HasChannelKept DEF Pclose, CallHasChannel
  <1>7. InjectedHasRemote'
    BY InjectedKept DEF Pclose, InjectedHasRemote
  <1>8. NotItself'
    BY DEF Pclose, NotItself
  <1>9. QED BY <1>1, <1>2, <1>3, <1>4, <1>5, <1>6, <1>7, <1>8

LEMMA ForkShape ==
  ASSUME Shape, NEW p \in Pids, NEW c \in Pids, Fork(p, c)
  PROVE  Shape'
  <1> USE DEF Shape, Types
  <1>1. AliveOK' /\ FileOK' /\ TracingOK' /\ TracerOK' /\ StoppedOK' /\ DataOK'
    BY DEF Fork, AliveOK, FileOK, TracingOK, TracerOK, StoppedOK, DataOK
  <1>2. AgentOK' /\ agent'[c] = agent[p] /\ OtherAgentsKeep(c)
    BY DEF Fork, AgentOK, OtherAgentsKeep
  <1>3. CallOK' /\ call'[c].at \in {"run", "forked"} /\ OtherCallsKeep(c)
    <2> DEFINE x == IF Traced(p) THEN [at |-> "forked"] ELSE Idle
    <2>1. x \in Calls /\ x.at \in {"run", "forked"}
      BY CallTypes
    <2>2. call' = [call EXCEPT ![c] = x]
      BY DEF Fork
    <2> HIDE DEF x
    <2>3. QED BY <2>1, <2>2, CallSet
  <1>4. ImagesOK' /\ PastOK'
    <2>1. images + 1 \in 0..MaxImages /\ Birth \in Histories
      BY BirthType DEF Fork
    <2>2. past[p].unseen \in SUBSET Fds
      BY HistoryMoves DEF PastOK
    <2>3. [Birth EXCEPT !.unseen = past[p].unseen] \in Histories
      BY <2>1, <2>2, HistoryMoves
    <2>4. QED BY <2>1, <2>3 DEF Fork, ImagesOK, PastOK
  <1>5. Dead'
    BY <1>2, <1>3 DEF Fork, Dead, FileOK, OtherAgentsKeep, OtherCallsKeep
  <1>6. CallHasFile'
    <2>1. HasFile(c)'
      BY <1>3, AtRest
    <2>2. \A q \in Pids \ {c} : HasFile(q)'
      BY <1>3, HasFileKept DEF Fork, FileOK, CallHasFile, OtherCallsKeep
    <2>3. QED BY <2>1, <2>2 DEF CallHasFile
  <1>7. CallHasChannel'
    <2>1. HasChannel(c)'
      BY <1>3, AtRest
    <2>2. \A q \in Pids \ {c} : HasChannel(q)'
      BY <1>2, <1>3, HasChannelKept
         DEF CallHasChannel, OtherCallsKeep, OtherAgentsKeep
    <2>3. QED BY <2>1, <2>2 DEF CallHasChannel
  <1>8. InjectedHasRemote'
    <2>1. InjectedOK(c)'
      BY <1>2 DEF InjectedHasRemote, InjectedOK, Traced
    <2>2. \A q \in Pids \ {c} : InjectedOK(q)'
      BY <1>2, InjectedKept DEF InjectedHasRemote, OtherAgentsKeep
    <2>3. QED BY <2>1, <2>2 DEF InjectedHasRemote
  <1>9. NotItself'
    BY DEF Fork, NotItself
  <1>10. QED BY <1>1, <1>2, <1>3, <1>4, <1>5, <1>6, <1>7, <1>8, <1>9

LEMMA ForkReturnsShape ==
  ASSUME Shape, NEW p \in Pids, ForkReturns(p)
  PROVE  Shape'
  <1> USE DEF Shape, Types
  <1>1. AliveOK' /\ FileOK' /\ AgentOK' /\ TracingOK' /\ TracerOK' /\ StoppedOK'
          /\ DataOK' /\ ImagesOK' /\ PastOK'
    BY DEF ForkReturns, AliveOK, FileOK, AgentOK, TracingOK, TracerOK,
           StoppedOK, DataOK, ImagesOK, PastOK
  <1>2. CallOK' /\ call'[p] = Idle /\ OtherCallsKeep(p)
    BY CallTypes, CallSet DEF ForkReturns
  <1>3. Dead'
    BY <1>2 DEF ForkReturns, Dead, OtherCallsKeep
  <1>4. CallHasFile'
    <2>1. HasFile(p)'
      BY <1>2, CallTypes, AtRest
    <2>2. \A q \in Pids \ {p} : HasFile(q)'
      BY <1>2, HasFileKept DEF ForkReturns, CallHasFile, OtherCallsKeep
    <2>3. QED BY <2>1, <2>2 DEF CallHasFile
  <1>5. CallHasChannel'
    <2>1. HasChannel(p)'
      BY <1>2, CallTypes, AtRest
    <2>2. \A q \in Pids \ {p} : HasChannel(q)'
      BY <1>2, HasChannelKept DEF ForkReturns, CallHasChannel, OtherCallsKeep
    <2>3. QED BY <2>1, <2>2 DEF CallHasChannel
  <1>6. InjectedHasRemote'
    BY InjectedKept DEF ForkReturns, InjectedHasRemote
  <1>7. NotItself'
    BY DEF ForkReturns, NotItself
  <1>8. QED BY <1>1, <1>2, <1>3, <1>4, <1>5, <1>6, <1>7

LEMMA ExecShape ==
  ASSUME Shape, NEW p \in Pids, NEW kept \in BOOLEAN, Exec(p, kept)
  PROVE  Shape'
  <1> USE DEF Shape, Types
  <1>1. AliveOK' /\ FileOK' /\ TracingOK' /\ CallOK' /\ TracerOK' /\ StoppedOK'
          /\ DataOK'
    BY DEF Exec, AliveOK, FileOK, TracingOK, CallOK, TracerOK, StoppedOK, DataOK
  <1>2. AgentOK' /\ OtherAgentsKeep(p) /\ InjectedOK(p)'
    BY LoadEffect DEF Exec
  <1>3. ImagesOK' /\ PastOK'
    BY BirthType DEF Exec, ImagesOK, PastOK
  <1>4. Dead'
    BY <1>2 DEF Exec, At, Running, Dead, OtherAgentsKeep
  <1>5. CallHasFile'
    BY HasFileKept DEF Exec, CallHasFile
  <1>6. CallHasChannel'
    <2>1. HasChannel(p)'
      BY AtRest DEF Exec, At
    <2>2. \A q \in Pids \ {p} : HasChannel(q)'
      BY <1>2, HasChannelKept DEF Exec, CallHasChannel, OtherAgentsKeep
    <2>3. QED BY <2>1, <2>2 DEF CallHasChannel
  <1>7. InjectedHasRemote'
    BY <1>2, InjectedKept DEF InjectedHasRemote, OtherAgentsKeep
  <1>8. NotItself'
    BY DEF Exec, NotItself
  <1>9. QED BY <1>1, <1>2, <1>3, <1>4, <1>5, <1>6, <1>7, <1>8

\* What is left when p is gone, whoever ended it.
LEMMA GoneShape ==
  ASSUME Shape, NEW p \in Pids, Gone(p), UNCHANGED <<tracing, data, images>>
  PROVE  Shape'
  <1> USE DEF Shape, Types
  <1>1. AliveOK' /\ TracingOK' /\ TracerOK' /\ StoppedOK' /\ DataOK' /\ ImagesOK'
    BY DEF Gone, AliveOK, TracingOK, TracerOK, StoppedOK, DataOK, ImagesOK
  <1>2. FileOK' /\ file'[p] = Empty /\ \A q \in Pids \ {p} : file'[q] = file[q]
    BY EmptyType DEF Gone, FileOK
  <1>3. AgentOK' /\ agent'[p] = NoAgent /\ OtherAgentsKeep(p)
    BY LoadEffect DEF Gone
  <1>4. CallOK' /\ call'[p] = Idle /\ OtherCallsKeep(p)
    BY CallTypes, CallSet DEF Gone
  <1>5. PastOK'
    BY UnbornType DEF Gone, PastOK
  <1>6. Dead'
    BY <1>2, <1>3, <1>4
       DEF Gone, Dead, TracerOK, OtherAgentsKeep, OtherCallsKeep
  <1>7. CallHasFile'
    <2>1. HasFile(p)'
      BY <1>4, CallTypes, AtRest
    <2>2. \A q \in Pids \ {p} : HasFile(q)'
      BY <1>2, <1>4, HasFileKept DEF CallHasFile, OtherCallsKeep
    <2>3. QED BY <2>1, <2>2 DEF CallHasFile
  <1>8. CallHasChannel'
    <2>1. HasChannel(p)'
      BY <1>4, CallTypes, AtRest
    <2>2. \A q \in Pids \ {p} : HasChannel(q)'
      BY <1>3, <1>4, HasChannelKept
         DEF CallHasChannel, OtherCallsKeep, OtherAgentsKeep
    <2>3. QED BY <2>1, <2>2 DEF CallHasChannel
  <1>9. InjectedHasRemote'
    BY <1>3, InjectedKept, NoAgentInjected
       DEF InjectedHasRemote, OtherAgentsKeep, Untraced
  <1>10. NotItself'
    BY IpcAssumption DEF Gone, NotItself, TracerOK
  <1>11. QED BY <1>1, <1>2, <1>3, <1>4, <1>5, <1>6, <1>7, <1>8, <1>9, <1>10

LEMMA WriteEntryShape ==
  ASSUME Shape, NEW p \in Pids, NEW fd \in Fds, WriteEntry(p, fd)
  PROVE  Shape'
  <1> USE DEF Shape, Types
  <1> DEFINE c == WriteChannel(p, fd)
  <1>1. AliveOK' /\ FileOK' /\ TracingOK' /\ TracerOK' /\ StoppedOK' /\ DataOK'
          /\ ImagesOK' /\ PastOK'
    BY DEF WriteEntry, AliveOK, FileOK, TracingOK, TracerOK, StoppedOK, DataOK,
           ImagesOK, PastOK
  <1>2. PICK place \in SenderPlaces :
          /\ call' = [call EXCEPT ![p] =
                        [at |-> place, fd |-> fd, told |-> Untold]]
          /\ ~ Traced(p) => place = "write"
          /\ place = "tell" => c.injected
          /\ place = "inject" => c.remote # NoPid
          /\ place \in {"write", "tell", "inject"}
    <2> DEFINE x == IF ~ Traced(p) \/ (~ c.injected /\ c.remote = NoPid)
                      THEN "write"
                      ELSE IF c.injected THEN "tell" ELSE "inject"
    <2>1. call' = [call EXCEPT ![p] = [at |-> x, fd |-> fd, told |-> Untold]]
      BY DEF WriteEntry
    <2>2. /\ x \in SenderPlaces
          /\ ~ Traced(p) => x = "write"
          /\ x = "tell" => c.injected
          /\ x = "inject" => c.remote # NoPid
          /\ x \in {"write", "tell", "inject"}
      BY DEF SenderPlaces, Injecting
    <2>3. QED BY <2>1, <2>2
  <1>3. /\ CallOK' /\ OtherCallsKeep(p)
        /\ call'[p].at = place /\ call'[p].fd = fd
    <2>1. [at |-> place, fd |-> fd, told |-> Untold] \in Calls
      BY CallTypes
    <2> DEFINE x == [at |-> place, fd |-> fd, told |-> Untold]
    <2>2. x \in Calls /\ x.at = place /\ x.fd = fd
      BY <2>1
    <2>3. call' = [call EXCEPT ![p] = x]
      BY <1>2
    <2> HIDE DEF x
    <2>4. QED BY <2>2, <2>3, CallSet
  <1>4. /\ AgentOK' /\ OtherAgentsKeep(p) /\ InjectedOK(p)' /\ HasChannel(p)'
        /\ Traced(p) <=> Traced(p)'
    <2>1. CASE Traced(p)
      <3>1. /\ c \in Channels /\ c # NoChannel
            /\ c.remote \in Pids \union {NoPid}
            /\ c.injected => c.remote \in Pids
        BY <2>1, WriteChannelType DEF WriteEntry
      <3>2. agent' = [agent EXCEPT ![p] = [agent[p] EXCEPT ![fd] = c]]
        BY <2>1 DEF WriteEntry
      <3> HIDE DEF c
      <3>3. /\ AgentOK' /\ OtherAgentsKeep(p) /\ Traced(p)'
            /\ agent'[p][fd] = c
            /\ \A g \in Fds \ {fd} : agent'[p][g] = agent[p][g]
        BY <2>1, <3>1, <3>2, ChannelSet
      <3>4. InjectedOK(p)'
        BY <2>1, <3>1, <3>3 DEF InjectedHasRemote, InjectedOK
      <3>5. HasChannel(p)'
        BY <1>2, <1>3, <3>1, <3>3 DEF HasChannel, Channel, Injecting, SenderPlaces
      <3>6. QED BY <2>1, <3>3, <3>4, <3>5
    <2>2. CASE ~ Traced(p)
      <3>1. agent' = agent
        BY <2>2 DEF WriteEntry
      <3>2. HasChannel(p)'
        BY <1>2, <1>3, <2>2, AtRest
      <3>3. QED BY <3>1, <3>2, InjectedKept
                DEF AgentOK, OtherAgentsKeep, InjectedHasRemote, Traced
    <2>3. QED BY <2>1, <2>2
  <1>5. Dead'
    BY <1>3, <1>4
       DEF WriteEntry, At, Running, Dead, OtherAgentsKeep, OtherCallsKeep
  <1>6. CallHasFile'
    <2>1. HasFile(p)'
      BY <1>3 DEF WriteEntry, HasFile
    <2>2. \A q \in Pids \ {p} : HasFile(q)'
      BY <1>3, HasFileKept DEF WriteEntry, CallHasFile, OtherCallsKeep
    <2>3. QED BY <2>1, <2>2 DEF CallHasFile
  <1>7. CallHasChannel'
    BY <1>3, <1>4, HasChannelKept
       DEF CallHasChannel, OtherCallsKeep, OtherAgentsKeep
  <1>8. InjectedHasRemote'
    BY <1>4, InjectedKept DEF InjectedHasRemote, OtherAgentsKeep
  <1>9. NotItself'
    BY DEF WriteEntry, NotItself
  <1>10. QED BY <1>1, <1>3, <1>4, <1>5, <1>6, <1>7, <1>8, <1>9

\* What a step does that moves a write() on and touches neither the files nor
\* the channels.
LEMMA GotoShape ==
  ASSUME Shape, NEW p \in Pids, p \in alive, call[p].at \in SenderPlaces,
         NEW place \in SenderPlaces, Goto(p, place),
         place \in Injecting => call[p].at \in Injecting,
         UNCHANGED <<alive, file, agent>>
  PROVE  CallOK' /\ CallHasFile' /\ CallHasChannel' /\ OtherCallsKeep(p)
  <1> USE DEF Shape, Types
  <1>1. /\ CallOK' /\ OtherCallsKeep(p)
        /\ call'[p].at = place /\ call'[p].fd = call[p].fd
    BY GotoEffect
  <1>2. CallHasFile'
    <2>1. HasFile(p)'
      BY <1>1 DEF CallHasFile, HasFile, SenderPlaces, Injecting
    <2>2. \A q \in Pids \ {p} : HasFile(q)'
      BY <1>1, HasFileKept DEF CallHasFile, OtherCallsKeep
    <2>3. QED BY <2>1, <2>2 DEF CallHasFile
  <1>3. CallHasChannel'
    <2>1. HasChannel(p)'
      BY <1>1 DEF CallHasChannel, HasChannel, Channel, Traced, Injecting,
                  SenderPlaces
    <2>2. \A q \in Pids \ {p} : HasChannel(q)'
      BY <1>1, HasChannelKept DEF CallHasChannel, OtherCallsKeep
    <2>3. QED BY <2>1, <2>2 DEF CallHasChannel
  <1>4. QED BY <1>1, <1>2, <1>3

LEMMA InjectLookShape ==
  ASSUME Shape, NEW p \in Pids, InjectLook(p)
  PROVE  Shape'
  <1> USE DEF Shape, Types
  <1>1. AliveOK' /\ FileOK' /\ AgentOK' /\ TracingOK' /\ TracerOK' /\ StoppedOK'
          /\ DataOK' /\ ImagesOK' /\ PastOK'
    BY DEF InjectLook, AliveOK, FileOK, AgentOK, TracingOK, TracerOK, StoppedOK,
           DataOK, ImagesOK, PastOK
  <1>2. PICK place \in {"tell", "create"} : Goto(p, place)
    BY DEF InjectLook
  <1>3. p \in alive /\ call[p].at = "inject"
    BY DEF InjectLook, At, Running
  <1>4. CallOK' /\ CallHasFile' /\ CallHasChannel' /\ OtherCallsKeep(p)
    BY <1>2, <1>3, GotoShape DEF InjectLook, SenderPlaces, Injecting
  <1>5. Dead'
    BY <1>3, <1>4 DEF InjectLook, Dead, OtherCallsKeep
  <1>6. InjectedHasRemote' /\ NotItself'
    BY InjectedKept DEF InjectLook, InjectedHasRemote, NotItself
  <1>7. QED BY <1>1, <1>4, <1>5, <1>6

LEMMA AttachShape ==
  ASSUME Shape, NEW p \in Pids, Attach(p)
  PROVE  Shape'
  <1> USE DEF Shape, Types
  <1>1. AliveOK' /\ FileOK' /\ AgentOK' /\ TracingOK' /\ StoppedOK' /\ DataOK'
          /\ ImagesOK' /\ PastOK'
    BY DEF Attach, AliveOK, FileOK, AgentOK, TracingOK, StoppedOK, DataOK,
           ImagesOK, PastOK
  <1>2. CallOK' /\ CallHasFile' /\ CallHasChannel' /\ OtherCallsKeep(p)
    BY GotoShape DEF Attach, At, Running, SenderPlaces, Injecting
  <1>3. TracerOK' /\ NotItself' /\ Dead'
    <2>1. Channel(p).remote \in alive /\ Channel(p).remote # p /\ p \in alive
      BY DEF Attach, Attachable, At, Running
    <2>2. TracerOK' /\ NotItself'
      BY <2>1 DEF Attach, TracerOK, NotItself
    <2>3. Dead'
      BY <1>2, <2>1 DEF Attach, Dead, OtherCallsKeep, TracerOK
    <2>4. QED BY <2>2, <2>3
  <1>4. InjectedHasRemote'
    BY InjectedKept DEF Attach, InjectedHasRemote
  <1>5. QED BY <1>1, <1>2, <1>3, <1>4

LEMMA HaltShape ==
  ASSUME Shape, NEW q \in Pids, Halt(q)
  PROVE  Shape'
  <1> USE DEF Shape, Types
  <1>1. AliveOK' /\ FileOK' /\ AgentOK' /\ TracingOK' /\ CallOK' /\ TracerOK'
          /\ StoppedOK' /\ DataOK' /\ ImagesOK' /\ PastOK'
    BY DEF Halt, AliveOK, FileOK, AgentOK, TracingOK, CallOK, TracerOK,
           StoppedOK, DataOK, ImagesOK, PastOK
  <1>2. Dead'
    BY DEF Halt, Dead
  <1>3. CallHasFile' /\ CallHasChannel' /\ InjectedHasRemote'
    BY HasFileKept, HasChannelKept, InjectedKept
       DEF Halt, CallHasFile, CallHasChannel, InjectedHasRemote
  <1>4. NotItself'
    BY DEF Halt, NotItself
  <1>5. QED BY <1>1, <1>2, <1>3, <1>4

\* Letting go of q, if p still has it.
LEMMA DetachEffect ==
  ASSUME TracerOK, StoppedOK, NotItself, NEW p \in Pids, NEW q \in Pids,
         Detach(p, q)
  PROVE  /\ TracerOK' /\ StoppedOK' /\ NotItself'
         /\ tracer[q] = p => tracer'[q] = NoPid /\ q \notin stopped'
         /\ tracer[q] # p => tracer'[q] = tracer[q]
         /\ \A r \in Pids \ {q} : tracer'[r] = tracer[r]
         /\ \A r \in Pids \ {q} : r \in stopped' <=> r \in stopped
         /\ stopped' \subseteq stopped
         /\ \A r \in Pids : tracer[r] = NoPid => tracer'[r] = NoPid
  <1>1. CASE tracer[q] = p
    BY <1>1, IpcAssumption DEF Detach, TracerOK, StoppedOK, NotItself
  <1>2. CASE tracer[q] # p
    BY <1>2 DEF Detach, TracerOK, StoppedOK, NotItself
  <1>3. QED BY <1>1, <1>2

\* The channel a call in Inject() has in hand.
LEMMA InHand ==
  ASSUME Shape, NEW p \in Pids, call[p].at \in Injecting
  PROVE  /\ Traced(p) /\ agent[p] \in Caches /\ call[p].fd \in Fds
         /\ Channel(p) = agent[p][call[p].fd]
         /\ Channel(p) \in Channels /\ Channel(p).remote \in Pids
  <1> USE DEF Shape, Types
  <1>1. Traced(p) /\ Channel(p) \in Channels /\ Channel(p).remote \in Pids
    BY DEF CallHasChannel, HasChannel
  <1>2. call[p] \in Calls
    BY DEF CallOK
  <1>3. call[p].fd \in Fds
    BY <1>2, CallFields DEF Injecting
  <1>4. QED BY <1>1, <1>3, TracedType DEF Channel

\* The end of an injection marks the channel, and no more of it.
LEMMA InjectedEffect ==
  ASSUME Shape, NEW p \in Pids, call[p].at \in Injecting, Injected(p)
  PROVE  /\ AgentOK' /\ OtherAgentsKeep(p) /\ Traced(p)'
         /\ agent'[p][call[p].fd] \in Channels
         /\ agent'[p][call[p].fd] # NoChannel
         /\ agent'[p][call[p].fd].remote = Channel(p).remote
         /\ agent'[p][call[p].fd].pipe = Channel(p).pipe
         /\ \A g \in Fds \ {call[p].fd} : agent'[p][g] = agent[p][g]
  <1>1. PICK fd \in Fds : fd = call[p].fd
    BY InHand
  <1>2. /\ Traced(p) /\ agent[p] \in Caches /\ Channel(p) = agent[p][fd]
        /\ agent[p][fd] \in Channels
    BY <1>1, InHand
  <1> DEFINE x == [agent[p][fd] EXCEPT !.injected = TRUE]
  <1>3. /\ x \in Channels /\ x # NoChannel
        /\ x.remote = Channel(p).remote /\ x.pipe = Channel(p).pipe
    BY <1>2, InjectedChannel
  <1>4. agent' = [agent EXCEPT ![p] = [agent[p] EXCEPT ![fd] = x]]
    BY <1>1 DEF Injected
  <1>5. AgentOK
    BY DEF Shape, Types
  <1> HIDE DEF x
  <1>6. /\ AgentOK' /\ OtherAgentsKeep(p) /\ Traced(p)'
        /\ agent'[p][fd] = x
        /\ \A g \in Fds \ {fd} : agent'[p][g] = agent[p][g]
    BY <1>2, <1>3, <1>4, <1>5, ChannelSet
  <1>7. QED BY <1>1, <1>3, <1>6

LEMMA InjectedShape ==
  ASSUME Shape, NEW p \in Pids, p \in alive,
         call[p].at \in {"attached", "loading"}, Injected(p)
  PROVE  Shape'
  <1> USE DEF Shape, Types
  <1>1. AliveOK' /\ FileOK' /\ TracingOK' /\ DataOK' /\ ImagesOK' /\ PastOK'
    BY DEF Injected, AliveOK, FileOK, TracingOK, DataOK, ImagesOK, PastOK
  <1>2. /\ CallOK' /\ OtherCallsKeep(p) /\ call[p].fd \in Fds
        /\ call'[p].at = "tell" /\ call'[p].fd = call[p].fd
    BY GotoEffect DEF Injected, SenderPlaces, Injecting
  <1>3. /\ Traced(p) /\ Channel(p) = agent[p][call[p].fd]
        /\ Channel(p) \in Channels
    BY InHand DEF Injecting
  <1>4. PICK q \in Pids : q = Channel(p).remote
    BY InHand DEF Injecting
  <1>5. PICK fd \in Fds : fd = call[p].fd
    BY <1>2
  <1>6. /\ AgentOK' /\ OtherAgentsKeep(p) /\ Traced(p)'
        /\ agent'[p][fd] \in Channels /\ agent'[p][fd].remote = q
        /\ \A g \in Fds \ {fd} : agent'[p][g] = agent[p][g]
    BY <1>4, <1>5, InjectedEffect DEF Injecting
  <1>7. TracerOK' /\ StoppedOK' /\ NotItself' /\ stopped' \subseteq stopped
    BY <1>4, DetachEffect DEF Injected
  <1>8. \A r \in Pids : tracer[r] = NoPid => tracer'[r] = NoPid
    BY <1>4, DetachEffect DEF Injected
  <1>9. Dead'
    BY <1>2, <1>6, <1>7, <1>8
       DEF Injected, Dead, OtherCallsKeep, OtherAgentsKeep
  <1>10. CallHasFile'
    <2>1. HasFile(p)'
      BY <1>2 DEF Injected, CallHasFile, HasFile
    <2>2. \A r \in Pids \ {p} : HasFile(r)'
      BY <1>2, HasFileKept DEF Injected, CallHasFile, OtherCallsKeep
    <2>3. QED BY <2>1, <2>2 DEF CallHasFile
  <1>11. CallHasChannel'
    <2>1. HasChannel(p)'
      BY <1>2, <1>5, <1>6 DEF HasChannel, Channel
    <2>2. \A r \in Pids \ {p} : HasChannel(r)'
      BY <1>2, <1>6, HasChannelKept
         DEF CallHasChannel, OtherCallsKeep, OtherAgentsKeep
    <2>3. QED BY <2>1, <2>2 DEF CallHasChannel
  <1>12. InjectedHasRemote'
    <2>1. InjectedOK(p)'
      BY <1>3, <1>6 DEF InjectedHasRemote, InjectedOK
    <2>2. \A r \in Pids \ {p} : InjectedOK(r)'
      BY <1>6, InjectedKept DEF InjectedHasRemote, OtherAgentsKeep
    <2>3. QED BY <2>1, <2>2 DEF InjectedHasRemote
  <1>13. QED BY <1>1, <1>2, <1>6, <1>7, <1>9, <1>10, <1>11, <1>12

LEMMA InjectLoadsShape ==
  ASSUME Shape, NEW p \in Pids, InjectLoads(p)
  PROVE  Shape'
  <1> USE DEF Shape, Types
  <1>1. AliveOK' /\ FileOK' /\ TracingOK' /\ TracerOK' /\ StoppedOK' /\ DataOK'
          /\ ImagesOK' /\ PastOK'
    BY DEF InjectLoads, AliveOK, FileOK, TracingOK, TracerOK, StoppedOK, DataOK,
           ImagesOK, PastOK
  <1>2. p \in alive /\ call[p].at = "attached" /\ Goto(p, "loading")
    BY DEF InjectLoads, At, Running
  <1>3. Traced(p) /\ Channel(p) \in Channels /\ Channel(p).remote \in Pids
    BY <1>2, InHand DEF Injecting
  <1>4. PICK q \in Pids :
          /\ q = Channel(p).remote /\ Load(q)
          /\ ~ HasAgent(q) /\ tracer[q] = p
    BY <1>3 DEF InjectLoads, Holds
  <1>5. q \in alive /\ q # p /\ ~ Traced(q)
    BY <1>3, <1>4, IpcAssumption DEF Dead, HasAgent, Traced
  <1>6. AgentOK' /\ OtherAgentsKeep(q) /\ InjectedOK(q)'
    BY <1>4, LoadEffect
  <1>7. /\ CallOK' /\ OtherCallsKeep(p)
        /\ call'[p].at = "loading" /\ call'[p].fd = call[p].fd
    BY <1>2, GotoEffect DEF SenderPlaces, Injecting
  <1>8. Dead'
    BY <1>2, <1>5, <1>6, <1>7
       DEF InjectLoads, Dead, OtherCallsKeep, OtherAgentsKeep
  <1>9. CallHasFile'
    <2>1. HasFile(p)'
      BY <1>2, <1>7 DEF InjectLoads, CallHasFile, HasFile
    <2>2. \A r \in Pids \ {p} : HasFile(r)'
      BY <1>7, HasFileKept DEF InjectLoads, CallHasFile, OtherCallsKeep
    <2>3. QED BY <2>1, <2>2 DEF CallHasFile
  <1>10. CallHasChannel'
    <2>1. HasChannel(p)'
      <3>1. agent'[p] = agent[p]
        BY <1>5, <1>6 DEF OtherAgentsKeep
      <3>2. Traced(p)' /\ Channel(p)' = Channel(p)
        BY <1>3, <1>7, <3>1 DEF Traced, Channel
      <3>3. QED BY <1>3, <3>2 DEF HasChannel
    <2>2. HasChannel(q)'
      BY <1>5, <1>7 DEF CallHasChannel, HasChannel, OtherCallsKeep
    <2>3. \A r \in Pids \ {p, q} : HasChannel(r)'
      BY <1>6, <1>7, HasChannelKept
         DEF CallHasChannel, OtherCallsKeep, OtherAgentsKeep
    <2>4. QED BY <2>1, <2>2, <2>3 DEF CallHasChannel
  <1>11. InjectedHasRemote'
    BY <1>6, InjectedKept DEF InjectedHasRemote, OtherAgentsKeep
  <1>12. NotItself'
    BY DEF InjectLoads, NotItself
  <1>13. QED BY <1>1, <1>6, <1>7, <1>8, <1>9, <1>10, <1>11, <1>12

LEMMA InjectRefusedShape ==
  ASSUME Shape, NEW p \in Pids, InjectRefused(p)
  PROVE  Shape'
  <1> USE DEF Shape, Types
  <1>1. AliveOK' /\ FileOK' /\ AgentOK' /\ TracingOK' /\ DataOK' /\ ImagesOK'
          /\ PastOK'
    BY DEF InjectRefused, AliveOK, FileOK, AgentOK, TracingOK, DataOK, ImagesOK,
           PastOK
  <1>2. /\ p \in alive /\ call[p].at \in {"attached", "loading"}
        /\ Goto(p, "write") /\ Detach(p, Channel(p).remote)
    BY DEF InjectRefused, At, Running
  <1>3. CallOK' /\ CallHasFile' /\ CallHasChannel' /\ OtherCallsKeep(p)
    BY <1>2, GotoShape DEF InjectRefused, SenderPlaces, Injecting
  <1>4. PICK q \in Pids : q = Channel(p).remote
    BY <1>2, InHand DEF Injecting
  <1>5. /\ TracerOK' /\ StoppedOK' /\ NotItself' /\ stopped' \subseteq stopped
        /\ \A r \in Pids : tracer[r] = NoPid => tracer'[r] = NoPid
    BY <1>2, <1>4, DetachEffect
  <1>6. Dead'
    BY <1>2, <1>3, <1>5 DEF InjectRefused, Dead, OtherCallsKeep
  <1>7. InjectedHasRemote'
    BY InjectedKept DEF InjectRefused, InjectedHasRemote
  <1>8. QED BY <1>1, <1>3, <1>5, <1>6, <1>7

LEMMA ToldType ==
  ASSUME PastOK, NEW q \in Pids
  PROVE  Told(q) \in Requests
  <1>1. past[q].image \in 0..MaxImages
    BY DEF PastOK, Histories
  <1>2. Told(q) = <<q, past[q].image>> \/ Told(q) = Untold
    BY DEF Told
  <1>3. QED BY <1>1, <1>2, CallTypes DEF Requests

LEMMA TellEffect ==
  ASSUME CallOK, NEW p \in Pids, call[p].at \in SenderPlaces,
         NEW told \in Requests,
         call' = [call EXCEPT ![p] =
                    [call[p] EXCEPT !.at = "write", !.told = told]]
  PROVE  /\ CallOK' /\ OtherCallsKeep(p)
         /\ call'[p].at = "write" /\ call'[p].fd = call[p].fd
         /\ call'[p].told = told
  <1> DEFINE c == [call[p] EXCEPT !.at = "write", !.told = told]
  <1>1. call[p] \in Calls
    BY DEF CallOK
  <1>2. "write" \in SenderPlaces
    BY DEF SenderPlaces
  <1>3. c \in Calls /\ c.at = "write" /\ c.fd = call[p].fd /\ c.told = told
    <2>1. ASSUME NEW d \in Calls, d.at \in SenderPlaces
          PROVE  /\ [d EXCEPT !.at = "write", !.told = told] \in Calls
                 /\ [d EXCEPT !.at = "write", !.told = told].at = "write"
                 /\ [d EXCEPT !.at = "write", !.told = told].fd = d.fd
                 /\ [d EXCEPT !.at = "write", !.told = told].told = told
      BY <1>2, <2>1 DEF Calls, SenderPlaces, Injecting
    <2>2. QED BY <1>1, <2>1
  <1> HIDE DEF c
  <1>4. call' = [call EXCEPT ![p] = c]
    BY DEF c
  <1>5. QED BY <1>3, <1>4, CallSet

LEMMA TellRemoteShape ==
  ASSUME Shape, NEW p \in Pids, TellRemote(p)
  PROVE  Shape'
  <1> USE DEF Shape, Types
  <1>1. AliveOK' /\ FileOK' /\ AgentOK' /\ TracerOK' /\ StoppedOK' /\ DataOK'
          /\ ImagesOK'
    BY DEF TellRemote, AliveOK, FileOK, AgentOK, TracerOK, StoppedOK, DataOK,
           ImagesOK
  <1>2. p \in alive /\ call[p].at = "tell" /\ Channel(p).remote \in Pids
    BY DEF TellRemote, At, Running, CallHasChannel, HasChannel, Injecting
  <1>3. PICK q \in Pids : q = Channel(p).remote
    BY <1>2
  <1>4. TracingOK'
    BY <1>3 DEF TellRemote, TracingOK
  <1>5. PastOK'
    <2>1. \A b \in BOOLEAN : [past[q] EXCEPT !.asked = b] \in Histories
      BY HistoryMoves DEF PastOK
    <2>2. past' = [past EXCEPT ![q] = [past[q] EXCEPT !.asked = q \in alive]]
      BY <1>3 DEF TellRemote
    <2>3. (q \in alive) \in BOOLEAN
      OBVIOUS
    <2>4. QED BY <2>1, <2>2, <2>3 DEF PastOK
  <1>6. PICK told \in Requests :
          call' = [call EXCEPT ![p] =
                     [call[p] EXCEPT !.at = "write", !.told = told]]
    BY <1>3, ToldType DEF TellRemote
  <1>7. /\ CallOK' /\ OtherCallsKeep(p)
        /\ call'[p].at = "write" /\ call'[p].fd = call[p].fd
    BY <1>2, <1>6, TellEffect DEF SenderPlaces, Injecting
  <1>8. Dead'
    BY <1>2, <1>7 DEF TellRemote, Dead, OtherCallsKeep
  <1>9. CallHasFile'
    <2>1. HasFile(p)'
      BY <1>2, <1>7 DEF TellRemote, CallHasFile, HasFile
    <2>2. \A r \in Pids \ {p} : HasFile(r)'
      BY <1>7, HasFileKept DEF TellRemote, CallHasFile, OtherCallsKeep
    <2>3. QED BY <2>1, <2>2 DEF CallHasFile
  <1>10. CallHasChannel'
    <2>1. HasChannel(p)'
      BY <1>7, AtRest
    <2>2. \A r \in Pids \ {p} : HasChannel(r)'
      BY <1>7, HasChannelKept DEF TellRemote, CallHasChannel, OtherCallsKeep
    <2>3. QED BY <2>1, <2>2 DEF CallHasChannel
  <1>11. InjectedHasRemote' /\ NotItself'
    BY InjectedKept DEF TellRemote, InjectedHasRemote, NotItself
  <1>12. QED BY <1>1, <1>4, <1>5, <1>7, <1>8, <1>9, <1>10, <1>11

\* A call that comes to its end and leaves files and agents alone.
LEMMA CallEnds ==
  ASSUME Shape, NEW p \in Pids, p \in alive, call' = [call EXCEPT ![p] = Idle],
         UNCHANGED <<alive, file, agent, tracer, stopped>>
  PROVE  /\ CallOK' /\ Dead' /\ CallHasFile' /\ CallHasChannel'
         /\ InjectedHasRemote' /\ NotItself'
  <1> USE DEF Shape, Types
  <1>1. CallOK' /\ call'[p] = Idle /\ OtherCallsKeep(p)
    BY CallTypes, CallSet
  <1>2. Dead'
    BY <1>1 DEF Dead, OtherCallsKeep
  <1>3. HasFile(p)' /\ HasChannel(p)'
    BY <1>1, CallTypes, AtRest
  <1>4. \A q \in Pids \ {p} : HasFile(q)' /\ HasChannel(q)'
    BY <1>1, HasFileKept, HasChannelKept
       DEF CallHasFile, CallHasChannel, OtherCallsKeep
  <1>5. InjectedHasRemote' /\ NotItself'
    BY InjectedKept DEF InjectedHasRemote, NotItself
  <1>6. QED BY <1>1, <1>2, <1>3, <1>4, <1>5 DEF CallHasFile, CallHasChannel

\* The file of a write() or read() in progress is a pipe.
LEMMA CallPipe ==
  ASSUME Shape, NEW p \in Pids, call[p].at \in {"write", "read", "popen"}
  PROVE  /\ call[p].fd \in Fds
         /\ file[p][call[p].fd] # NoFile
         /\ file[p][call[p].fd].pipe \in Pipes
  <1> USE DEF Shape, Types
  <1>1. call[p] \in Calls /\ file[p] \in Files
    BY DEF CallOK, FileOK
  <1>2. call[p].fd \in Fds
    BY <1>1, CallFields
  <1>3. file[p][call[p].fd] # NoFile
    BY DEF CallHasFile, HasFile
  <1>4. QED BY <1>1, <1>2, <1>3, FilesType

LEMMA WriteShape ==
  ASSUME Shape, NEW p \in Pids, Write(p)
  PROVE  Shape'
  <1> USE DEF Shape, Types
  <1>1. AliveOK' /\ FileOK' /\ AgentOK' /\ TracingOK' /\ TracerOK' /\ StoppedOK'
          /\ ImagesOK' /\ PastOK'
    BY DEF Write, AliveOK, FileOK, AgentOK, TracingOK, TracerOK, StoppedOK,
           ImagesOK, PastOK
  <1>2. p \in alive /\ call[p].at = "write"
    BY DEF Write, At, Running
  <1>3. /\ CallOK' /\ Dead' /\ CallHasFile' /\ CallHasChannel'
        /\ InjectedHasRemote' /\ NotItself'
    BY <1>2, CallEnds DEF Write
  <1>4. DataOK'
    <2>1. PICK pipe \in Pipes : pipe = file[p][call[p].fd].pipe
      BY <1>2, CallPipe
    <2>2. call[p].told \in Requests /\ data[pipe] \in Seq(Requests)
      BY <1>2, CallFields DEF CallOK, SenderPlaces, DataOK
    <2>3. \/ data' = data
          \/ data' = [data EXCEPT ![pipe] = Append(data[pipe], call[p].told)]
      BY <2>1 DEF Write
    <2>4. Append(data[pipe], call[p].told) \in Seq(Requests)
      BY <2>2
    <2>5. QED BY <2>3, <2>4 DEF DataOK
  <1>5. QED BY <1>1, <1>3, <1>4

LEMMA ReadEntryShape ==
  ASSUME Shape, NEW p \in Pids, NEW fd \in Fds, ReadEntry(p, fd)
  PROVE  Shape'
  <1> USE DEF Shape, Types
  <1>1. AliveOK' /\ FileOK' /\ AgentOK' /\ TracingOK' /\ TracerOK' /\ StoppedOK'
          /\ DataOK' /\ ImagesOK' /\ PastOK'
    BY DEF ReadEntry, AliveOK, FileOK, AgentOK, TracingOK, TracerOK, StoppedOK,
           DataOK, ImagesOK, PastOK
  <1>2. /\ CallOK' /\ OtherCallsKeep(p)
        /\ call'[p].at = "read" /\ call'[p].fd = fd
    <2> DEFINE c == [at |-> "read", fd |-> fd]
    <2>1. call' = [call EXCEPT ![p] = c]
      BY DEF ReadEntry
    <2>2. c \in Calls /\ c.at = "read" /\ c.fd = fd
      BY CallTypes
    <2> HIDE DEF c
    <2>3. QED BY <2>1, <2>2, CallSet
  <1>3. Dead'
    BY <1>2 DEF ReadEntry, At, Running, Dead, OtherCallsKeep
  <1>4. HasFile(p)' /\ HasChannel(p)'
    BY <1>2, AtRest DEF ReadEntry, HasFile
  <1>5. \A q \in Pids \ {p} : HasFile(q)' /\ HasChannel(q)'
    BY <1>2, HasFileKept, HasChannelKept
       DEF ReadEntry, CallHasFile, CallHasChannel, OtherCallsKeep
  <1>6. InjectedHasRemote' /\ NotItself'
    BY InjectedKept DEF ReadEntry, InjectedHasRemote, NotItself
  <1>7. QED BY <1>1, <1>2, <1>3, <1>4, <1>5, <1>6
            DEF CallHasFile, CallHasChannel

LEMMA ReadShape ==
  ASSUME Shape, NEW p \in Pids, Read(p)
  PROVE  Shape'
  <1> USE DEF Shape, Types
  <1>1. AliveOK' /\ FileOK' /\ AgentOK' /\ TracingOK' /\ TracerOK' /\ StoppedOK'
          /\ ImagesOK' /\ PastOK'
    BY DEF Read, AliveOK, FileOK, AgentOK, TracingOK, TracerOK, StoppedOK,
           ImagesOK, PastOK
  <1>2. p \in alive /\ call[p].at = "read"
    BY DEF Read, At, Running
  <1>3. /\ CallOK' /\ Dead' /\ CallHasFile' /\ CallHasChannel'
        /\ InjectedHasRemote' /\ NotItself'
    BY <1>2, CallEnds DEF Read
  <1>4. DataOK'
    <2>1. PICK pipe \in Pipes : pipe = file[p][call[p].fd].pipe
      BY <1>2, CallPipe
    <2>2. data[pipe] \in Seq(Requests)
      BY DEF DataOK
    <2>3. \/ data' = data
          \/ data[pipe] # <<>> /\ data' = [data EXCEPT ![pipe] = Tail(data[pipe])]
      BY <2>1 DEF Read
    <2>4. data[pipe] # <<>> => Tail(data[pipe]) \in Seq(Requests)
      BY <2>2
    <2>5. QED BY <2>3, <2>4 DEF DataOK
  <1>5. QED BY <1>1, <1>3, <1>4

LEMMA PopenShape ==
  ASSUME Shape, NEW p \in Pids, NEW c \in Pids, NEW dir \in {"r", "w"},
         NEW kept \in BOOLEAN, Popen(p, c, dir, kept)
  PROVE  Shape'
  <1> USE DEF Shape, Types
  <1>1. TracerOK' /\ StoppedOK' /\ AliveOK'
    BY DEF Popen, TracerOK, StoppedOK, AliveOK
  <1>2. c # p /\ p \in alive /\ c \notin alive /\ alive' = alive \union {c}
    BY DEF Popen, At, Running
  <1>3. PICK fd \in FreeFds(p) : fd = Min(FreeFds(p))
    <2>1. FreeFds(p) \subseteq Fds
      BY DEF FreeFds
    <2>2. FreeFds(p) # {}
      BY DEF Popen
    <2>3. QED BY <2>1, <2>2, MinOfFds
  <1>4. PICK pipe \in FreePipes :
          /\ file' = [file EXCEPT
                        ![p][fd] = End(pipe, dir, TRUE),
                        ![c] = [file[p] EXCEPT
                                 ![fd] = End(pipe, OtherDir(dir), FALSE)]]
          /\ data' = [data EXCEPT ![pipe] = <<>>]
          /\ call' = [call EXCEPT ![p] = [at |-> "popen", fd |-> fd],
                                  ![c] = Idle]
    BY <1>3 DEF Popen
  <1>5. fd \in Fds /\ pipe \in Pipes
    BY DEF FreeFds, FreePipes
  <1>6. PICK e \in Ends, d \in Ends :
          /\ e = End(pipe, dir, TRUE) /\ e # NoFile
          /\ d = End(pipe, OtherDir(dir), FALSE)
    <2>1. OtherDir(dir) \in {"r", "w"}
      BY DEF OtherDir
    <2>2. QED BY <1>5, <2>1, EndType
  <1>7. /\ FileOK' /\ file'[p][fd] # NoFile
        /\ \A q \in Pids \ {p, c} : file'[q] = file[q]
    <2>1. file[p] \in Files
      BY DEF FileOK
    <2>2. /\ [file[p] EXCEPT ![fd] = e] \in Files
          /\ [file[p] EXCEPT ![fd] = d] \in Files
          /\ [file[p] EXCEPT ![fd] = e][fd] = e
      BY <1>5, <2>1, FilesType
    <2> DEFINE fp == [file[p] EXCEPT ![fd] = e]
               fc == [file[p] EXCEPT ![fd] = d]
    <2>3. file' = [file EXCEPT ![p] = fp, ![c] = fc]
      BY <1>2, <1>4, <1>6 DEF FileOK
    <2>4. fp \in Files /\ fc \in Files /\ fp[fd] # NoFile
      BY <1>6, <2>2
    <2> HIDE DEF fp, fc
    <2>5. QED BY <1>2, <2>3, <2>4 DEF FileOK
  <1>8. DataOK'
    BY <1>4, <1>5 DEF DataOK
  <1>9. /\ CallOK' /\ call'[c] = Idle
        /\ call'[p].at = "popen" /\ call'[p].fd = fd
        /\ \A q \in Pids \ {p, c} : call'[q] = call[q]
    <2> DEFINE x == [at |-> "popen", fd |-> fd]
    <2>1. x \in Calls /\ x.at = "popen" /\ x.fd = fd
      BY <1>5, CallTypes
    <2>2. call' = [call EXCEPT ![p] = x, ![c] = Idle]
      BY <1>4
    <2> HIDE DEF x
    <2>3. QED BY <1>2, <2>1, <2>2, CallTypes DEF CallOK
  <1>10. AgentOK' /\ TracingOK' /\ OtherAgentsKeep(c) /\ InjectedOK(c)'
    BY LoadEffect DEF Popen, TracingOK
  <1>11. ImagesOK' /\ PastOK'
    BY BirthType DEF Popen, ImagesOK, PastOK
  <1>12. Dead'
    BY <1>2, <1>7, <1>9, <1>10 DEF Popen, Dead, OtherAgentsKeep
  <1>13. CallHasFile'
    <2>1. HasFile(p)'
      BY <1>7, <1>9 DEF HasFile
    <2>2. HasFile(c)'
      BY <1>9, CallTypes, AtRest
    <2>3. \A q \in Pids \ {p, c} : HasFile(q)'
      BY <1>7, <1>9, HasFileKept DEF CallHasFile
    <2>4. QED BY <2>1, <2>2, <2>3 DEF CallHasFile
  <1>14. CallHasChannel'
    <2>1. HasChannel(p)'
      <3>1. Traced(p)'
        BY <1>2, <1>10 DEF Popen, OtherAgentsKeep, Traced
      <3>2. QED BY <1>9, <3>1 DEF HasChannel, Injecting
    <2>2. HasChannel(c)'
      BY <1>9, CallTypes, AtRest
    <2>3. \A q \in Pids \ {p, c} : HasChannel(q)'
      BY <1>9, <1>10, HasChannelKept DEF CallHasChannel, OtherAgentsKeep
    <2>4. QED BY <2>1, <2>2, <2>3 DEF CallHasChannel
  <1>15. InjectedHasRemote'
    BY <1>10, InjectedKept DEF InjectedHasRemote, OtherAgentsKeep
  <1>16. NotItself'
    BY DEF Popen, NotItself
  <1>17. QED BY <1>1, <1>7, <1>8, <1>9, <1>10, <1>11, <1>12, <1>13, <1>14,
                <1>15, <1>16

LEMMA PopenReturnsShape ==
  ASSUME Shape, NEW p \in Pids, PopenReturns(p)
  PROVE  Shape'
  <1> USE DEF Shape, Types
  <1>1. AliveOK' /\ FileOK' /\ TracerOK' /\ StoppedOK' /\ DataOK' /\ ImagesOK'
    BY DEF PopenReturns, AliveOK, FileOK, TracerOK, StoppedOK, DataOK, ImagesOK
  <1>2. p \in alive /\ call[p].at = "popen" /\ Traced(p)
    BY DEF PopenReturns, At, Running, CallHasChannel, HasChannel
  <1>3. PICK fd \in Fds : fd = call[p].fd /\ file[p][fd] # NoFile
    BY <1>2, CallPipe
  <1>4. PICK c \in Channels :
          /\ c = WriteChannel(p, fd) /\ c # NoChannel
          /\ c.remote \in Pids \union {NoPid}
          /\ c.injected => c.remote \in Pids
    BY <1>2, <1>3, WriteChannelType
  <1>5. agent' = [agent EXCEPT ![p] = [agent[p] EXCEPT ![fd] = c]]
    BY <1>3, <1>4 DEF PopenReturns
  <1>6. /\ AgentOK' /\ OtherAgentsKeep(p) /\ Traced(p)' /\ agent'[p][fd] = c
        /\ \A g \in Fds \ {fd} : agent'[p][g] = agent[p][g]
    <2>1. c \in Channels \union {NoChannel}
      OBVIOUS
    <2>2. AgentOK /\ Traced(p)
      BY <1>2
    <2>3. ASSUME NEW x \in Channels \union {NoChannel},
                 agent' = [agent EXCEPT ![p] = [agent[p] EXCEPT ![fd] = x]]
          PROVE  /\ AgentOK' /\ OtherAgentsKeep(p) /\ Traced(p)'
                 /\ agent'[p][fd] = x
                 /\ \A g \in Fds \ {fd} : agent'[p][g] = agent[p][g]
      BY <2>2, <2>3, ChannelSet
    <2>4. QED BY <1>5, <2>1, <2>3
  <1>7. TracingOK'
    BY DEF PopenReturns, TracingOK
  <1>8. PastOK'
    <2>1. CASE c.remote \notin alive
      BY <1>3, <1>4, <2>1 DEF PopenReturns, PastOK
    <2>2. CASE c.remote \in alive
      <3>1. PICK q \in Pids : q = c.remote
        BY <2>2 DEF AliveOK
      <3>2. past' = [past EXCEPT ![q] = [past[q] EXCEPT !.hushed = TRUE]]
        BY <1>3, <1>4, <2>2, <3>1 DEF PopenReturns
      <3>3. [past[q] EXCEPT !.hushed = TRUE] \in Histories
        BY HistoryMoves DEF PastOK
      <3>4. QED BY <3>2, <3>3 DEF PastOK
    <2>3. QED BY <2>1, <2>2
  <1>9. CallOK' /\ call'[p] = Idle /\ OtherCallsKeep(p)
    BY CallTypes, CallSet DEF PopenReturns
  <1>10. Dead'
    BY <1>2, <1>6, <1>9 DEF PopenReturns, Dead, OtherAgentsKeep, OtherCallsKeep
  <1>11. HasFile(p)' /\ HasChannel(p)'
    BY <1>9, CallTypes, AtRest
  <1>12. \A q \in Pids \ {p} : HasFile(q)' /\ HasChannel(q)'
    BY <1>6, <1>9, HasFileKept, HasChannelKept
       DEF PopenReturns, CallHasFile, CallHasChannel, OtherCallsKeep,
           OtherAgentsKeep
  <1>13. InjectedHasRemote'
    <2>1. InjectedOK(p)'
      BY <1>2, <1>4, <1>6 DEF InjectedHasRemote, InjectedOK
    <2>2. QED BY <1>6, <2>1, InjectedKept DEF InjectedHasRemote, OtherAgentsKeep
  <1>14. NotItself'
    BY DEF PopenReturns, NotItself
  <1>15. QED BY <1>1, <1>6, <1>7, <1>8, <1>9, <1>10, <1>11, <1>12, <1>13, <1>14
             DEF CallHasFile, CallHasChannel

LEMMA InitShape == Init => Shape
  <1> SUFFICES ASSUME Init PROVE Shape
    OBVIOUS
  <1> USE DEF Init
  <1>1. Min(Pids) \in Pids
    BY MinOfPids, IpcAssumption
  <1>2. AliveOK /\ TracingOK /\ StoppedOK /\ TracerOK /\ DataOK /\ ImagesOK
    BY <1>1, IpcAssumption
       DEF AliveOK, TracingOK, StoppedOK, TracerOK, DataOK, ImagesOK
  <1>3. FileOK /\ AgentOK /\ CallOK /\ PastOK
    BY EmptyType, CallTypes, UnbornType
       DEF FileOK, AgentOK, CallOK, PastOK, Untraced
  <1>4. Dead /\ CallHasFile /\ CallHasChannel
    BY CallTypes
       DEF Dead, CallHasFile, HasFile, CallHasChannel, HasChannel, Injecting
  <1>5. InjectedHasRemote
    BY DEF InjectedHasRemote, InjectedOK, Traced
  <1>6. NotItself
    BY IpcAssumption DEF NotItself
  <1>7. QED BY <1>2, <1>3, <1>4, <1>5, <1>6 DEF Shape, Types

LEMMA StutterShape == Shape /\ UNCHANGED vars => Shape'
  <1> SUFFICES ASSUME Shape, UNCHANGED vars PROVE Shape'
    OBVIOUS
  <1> USE DEF Shape, Types, vars
  <1>1. AliveOK' /\ FileOK' /\ AgentOK' /\ TracingOK' /\ CallOK' /\ TracerOK'
          /\ StoppedOK' /\ DataOK' /\ ImagesOK' /\ PastOK'
    BY DEF AliveOK, FileOK, AgentOK, TracingOK, CallOK, TracerOK, StoppedOK,
           DataOK, ImagesOK, PastOK
  <1>2. Dead' /\ NotItself'
    BY DEF Dead, NotItself
  <1>3. CallHasFile' /\ CallHasChannel' /\ InjectedHasRemote'
    BY HasFileKept, HasChannelKept, InjectedKept
       DEF CallHasFile, CallHasChannel, InjectedHasRemote
  <1>4. QED BY <1>1, <1>2, <1>3

LEMMA StepShape == Shape /\ [Next]_vars => Shape'
  <1> SUFFICES ASSUME Shape, [Next]_vars PROVE Shape'
    OBVIOUS
  <1>1. ASSUME NEW p \in Pids, AgentStep(p) PROVE Shape'
    <2>1. CASE InjectFinds(p) \/ InjectLoaded(p)
      BY <2>1, InjectedShape DEF InjectFinds, InjectLoaded, At, Running
    <2>2. CASE ~ InjectFinds(p) /\ ~ InjectLoaded(p)
      BY <1>1, <2>2, ForkReturnsShape, InjectLookShape, AttachShape, GoneShape,
         InjectLoadsShape, InjectRefusedShape, TellRemoteShape,
         PopenReturnsShape
         DEF AgentStep, AttachFails
    <2>3. QED BY <2>1, <2>2
  <1>2. ASSUME NEW p \in Pids, Program(p) PROVE Shape'
    BY <1>2, LoadByHandShape, PipeCallShape, WriteShape, ReadShape, GoneShape,
       CloseShape, PcloseShape, WriteEntryShape, ReadEntryShape, ForkShape,
       ExecShape, PopenShape
       DEF Program, Die
  <1>3. ASSUME NEW p \in Pids, System(p) PROVE Shape'
    BY <1>3, ConstructShape, HaltShape DEF System
  <1>4. QED BY <1>1, <1>2, <1>3, StutterShape DEF Next

LEMMA StepReaders == Shape /\ ReadersOK /\ [Next]_vars => ReadersOK'
  <1> SUFFICES ASSUME Shape, ReadersOK, [Next]_vars PROVE ReadersOK'
    OBVIOUS
  <1> USE DEF ReadersOK
  <1>1. ASSUME NEW q \in Pids, Load(q) \/ Unload(q) PROVE ReadersOK'
    BY <1>1 DEF Load, Unload
  <1>2. ASSUME NEW p \in Pids, AgentStep(p) PROVE ReadersOK'
    <2>1. CASE AttachFails(p)
      BY <1>1, <2>1 DEF AttachFails, Gone
    <2>2. CASE InjectLoads(p)
      <3>1. Channel(p).remote \in Pids
        BY <2>2, InHand DEF InjectLoads, At, Injecting
      <3>2. QED BY <1>1, <2>2, <3>1 DEF InjectLoads
    <2>3. CASE ~ AttachFails(p) /\ ~ InjectLoads(p)
      <3>1. readers' = readers
        BY <1>2, <2>3 DEF AgentStep, ForkReturns, InjectLook, Attach,
             InjectFinds, InjectLoaded, Injected, InjectRefused, TellRemote,
             PopenReturns
      <3>2. QED BY <3>1
    <2>4. QED BY <2>1, <2>2, <2>3
  <1>3. ASSUME NEW p \in Pids, Program(p) PROVE ReadersOK'
    <2>1. CASE LoadByHand(p) \/ Die(p) \/ \E kept \in BOOLEAN : Exec(p, kept)
      BY <1>1, <2>1 DEF LoadByHand, Die, Gone, Exec
    <2>2. CASE PipeCall(p) \/ Write(p) \/ Read(p)
      BY <2>2 DEF PipeCall, Write, Read
    <2>3. ASSUME NEW fd \in Fds,
                 \/ Close(p, fd) \/ Pclose(p, fd)
                 \/ WriteEntry(p, fd) \/ ReadEntry(p, fd)
          PROVE  ReadersOK'
      <3>1. CASE Close(p, fd)
        BY <3>1 DEF Close, CloseReader
      <3>2. CASE Pclose(p, fd) \/ WriteEntry(p, fd) \/ ReadEntry(p, fd)
        BY <3>2 DEF Pclose, WriteEntry, ReadEntry
      <3>3. QED BY <2>3, <3>1, <3>2
    <2>4. ASSUME NEW c \in Pids, Fork(p, c) PROVE ReadersOK'
      BY <2>4 DEF Fork
    <2>5. ASSUME NEW c \in Pids, NEW dir \in {"r", "w"}, NEW kept \in BOOLEAN,
                 Popen(p, c, dir, kept)
          PROVE  ReadersOK'
      BY <1>1, <2>5 DEF Popen
    <2>6. QED BY <1>3, <2>1, <2>2, <2>3, <2>4, <2>5 DEF Program
  <1>4. ASSUME NEW p \in Pids, System(p) PROVE ReadersOK'
    BY <1>4 DEF System, Construct, Decline, Halt
  <1>5. CASE UNCHANGED vars
    BY <1>5 DEF vars
  <1>6. QED BY <1>2, <1>3, <1>4, <1>5 DEF Next

\* Every variable keeps its type.  Above all SetRemoteStartTracing(1, c) only
\* ever sets the byte of a pid: Inject() never answers true for a channel with
\* nobody at its other end, whose remote_pid is -1.
THEOREM TypeCorrect == Spec => []TypeOK
  <1>1. Init => ReadersOK
    BY DEF Init, ReadersOK
  <1>2. Shape /\ ReadersOK => TypeOK
    BY TypesIsTypeOK DEF Shape
  <1>3. Shape /\ ReadersOK /\ [Next]_vars => (Shape /\ ReadersOK)'
    BY StepShape, StepReaders
  <1>4. QED BY <1>1, <1>2, <1>3, InitShape, PTL DEF Spec

-----------------------------------------------------------------------------
(***************************************************************************)
(* The fate of a process in one step, as far as its agent, its byte of the *)
(* shared segment and its history go.                                      *)
(***************************************************************************)
Forked(q) == call[q].at = "forked"

\* The two that announcements are told apart by stay as they are.
SameProgram(q) ==
  /\ q \in alive' <=> q \in alive
  /\ past'[q].image = past[q].image
  /\ images' = images

Untouched(q) ==
  /\ q \in alive' <=> q \in alive
  /\ past'[q].image = past[q].image
  /\ past'[q].asked = past[q].asked /\ past'[q].hushed = past[q].hushed
  /\ q \in tracing' <=> q \in tracing
  /\ Traced(q)' <=> Traced(q)
  /\ Forked(q)' <=> Forked(q)
  /\ images' \in {images, images + 1}

\* A new program: the child of a fork, which has its exit to go through, or
\* of popen(), or after exec, where no agent is at work yet.
Reborn(q) ==
  /\ images' = images + 1
  /\ past'[q].image = images'
  /\ ~ Traced(q)' \/ Forked(q)'

\* Dead and forgotten.
Ended(q) ==
  /\ q \notin alive' /\ ~ Traced(q)'
  /\ past'[q] = Unborn
  /\ images' = images

\* The constructor of the agent returns.
Constructed(q) ==
  /\ SameProgram(q)
  /\ ~ Traced(q)
  /\ q \notin tracing'
  /\ past'[q] = past[q]

\* The exit wrapper of fork clears the byte of the child.
OutOfFork(q) ==
  /\ SameProgram(q)
  /\ Forked(q)
  /\ q \notin tracing'
  /\ Traced(q)' <=> Traced(q)
  /\ past'[q] = past[q]

\* A writer sets the byte.
Asked(q) ==
  /\ SameProgram(q)
  /\ q \in tracing'
  /\ q \in alive => past'[q].asked
  /\ Traced(q)' <=> Traced(q)
  /\ Forked(q)' <=> Forked(q)
  /\ past'[q].hushed = past[q].hushed

\* A popen() clears it.
Hushed(q) ==
  /\ SameProgram(q)
  /\ q \notin tracing'
  /\ q \in alive => past'[q].hushed
  /\ Traced(q)' <=> Traced(q)

Fate(q) ==
  \/ Untouched(q) \/ Reborn(q) \/ Ended(q) \/ Constructed(q) \/ OutOfFork(q)
  \/ Asked(q) \/ Hushed(q)

LEMMA HistoryFields ==
  ASSUME NEW h \in Histories, NEW b \in BOOLEAN, NEW S \in SUBSET Fds
  PROVE  /\ [h EXCEPT !.unseen = S].image = h.image
         /\ LET g == [h EXCEPT !.asked = b]
            IN  g.image = h.image /\ g.asked = b /\ g.hushed = h.hushed
         /\ LET g == [h EXCEPT !.hushed = TRUE]
            IN  g.image = h.image /\ g.hushed /\ g.asked = h.asked
  BY DEF Histories

LEMMA BirthFields ==
  ASSUME ImagesOK, images < MaxImages
  PROVE  Birth \in Histories /\ Birth.image = images + 1
  <1>1. Birth \in Histories
    BY BirthType
  <1>2. Birth.image = images + 1
    BY DEF Birth, Unborn
  <1>3. QED BY <1>1, <1>2

\* A step that changes none of it for q.
LEMMA Nothing ==
  ASSUME NEW q \in Pids, q \in alive' <=> q \in alive, past'[q] = past[q],
         q \in tracing' <=> q \in tracing, agent'[q] = agent[q],
         Forked(q)' <=> Forked(q), images' \in {images, images + 1}
  PROVE  Untouched(q)
  BY DEF Untouched, Traced

\* Loading the library, or refusing to work, makes no agent of it.
LEMMA LoadFate ==
  ASSUME Shape, NEW p \in Pids, LoadByHand(p) \/ Decline(p), NEW q \in Pids
  PROVE  Fate(q)
  <1> USE DEF Shape, Types
  <1>1. /\ UNCHANGED <<alive, call, tracing, images, past>>
        /\ ~ Traced(p)
    BY DEF LoadByHand, Decline, Constructing, HasAgent, Traced
  <1>2. ~ Traced(p)' /\ OtherAgentsKeep(p)
    <2>1. CASE LoadByHand(p)
      BY <2>1, LoadEffect DEF LoadByHand
    <2>2. CASE Decline(p)
      BY <2>2, AgentSet DEF Decline, Traced, Untraced
    <2>3. QED BY <2>1, <2>2
  <1>3. Traced(q)' <=> Traced(q)
    BY <1>1, <1>2 DEF OtherAgentsKeep, Traced
  <1>4. QED BY <1>1, <1>3 DEF Fate, Untouched, Forked

LEMMA ConstructFate ==
  ASSUME Shape, NEW p \in Pids, Construct(p), NEW q \in Pids
  PROVE  Fate(q)
  <1> USE DEF Shape, Types
  <1>1. CASE q = p
    BY <1>1 DEF Construct, Constructing, Fate, Constructed, SameProgram, Traced
  <1>2. CASE q # p
    BY <1>2, Nothing DEF Construct, Fate, Forked, AgentOK
  <1>3. QED BY <1>1, <1>2

LEMMA CloseFate ==
  ASSUME Shape, NEW p \in Pids, NEW fd \in Fds, Close(p, fd) \/ Pclose(p, fd),
         NEW q \in Pids
  PROVE  Fate(q)
  <1> USE DEF Shape, Types
  <1>1. PICK S \in SUBSET Fds :
          \/ past' = past
          \/ past' = [past EXCEPT ![p] = [past[p] EXCEPT !.unseen = S]]
    <2>1. past[p].unseen \in SUBSET Fds
      BY HistoryMoves DEF PastOK
    <2>2. \/ past' = past
          \/ past' = [past EXCEPT ![p] =
                        [past[p] EXCEPT !.unseen = past[p].unseen \ {fd}]]
          \/ past' = [past EXCEPT ![p] =
                        [past[p] EXCEPT !.unseen = past[p].unseen \union {fd}]]
      BY DEF Close, Pclose
    <2>3. QED BY <2>1, <2>2
  <1>2. past[q] \in Histories
    BY DEF PastOK
  <1>3. /\ past'[q].image = past[q].image
        /\ past'[q].asked = past[q].asked /\ past'[q].hushed = past[q].hushed
    <2>1. past'[q] = past[q] \/ past'[q] = [past[q] EXCEPT !.unseen = S]
      BY <1>1 DEF PastOK
    <2>2. QED BY <1>2, <2>1 DEF Histories
  <1>4. Traced(q)' <=> Traced(q)
    <2>1. CASE agent' = agent
      BY <2>1 DEF Traced
    <2>2. CASE Traced(p) /\ agent' = [agent EXCEPT ![p] =
                                        [agent[p] EXCEPT ![fd] = NoChannel]]
      BY <2>2, ChannelSet DEF OtherAgentsKeep, Traced
    <2>3. QED BY <2>1, <2>2 DEF Close, CloseChannel, Pclose
  <1>5. QED BY <1>3, <1>4 DEF Close, Pclose, Fate, Untouched, Forked

LEMMA ForkFate ==
  ASSUME Shape, NEW p \in Pids, NEW c \in Pids, Fork(p, c), NEW q \in Pids
  PROVE  Fate(q)
  <1> USE DEF Shape, Types
  <1>1. /\ images' = images + 1
        /\ agent' = [agent EXCEPT ![c] = agent[p]]
        /\ tracing' = tracing /\ alive' = alive \union {c}
    BY DEF Fork
  <1>2. CASE q = c
    <2>1. past[p].unseen \in SUBSET Fds
      BY HistoryMoves DEF PastOK
    <2>2. past'[c] = [Birth EXCEPT !.unseen = past[p].unseen]
      BY DEF Fork, PastOK
    <2>3. Birth \in Histories /\ Birth.image = images + 1
      BY BirthFields DEF Fork
    <2>4. past'[c].image = images + 1
      BY <2>1, <2>2, <2>3, HistoryFields
    <2>5. Traced(c)' <=> Traced(p)
      BY <1>1 DEF Traced, AgentOK
    <2>6. Traced(p) => Forked(c)'
      BY DEF Fork, Forked, CallOK
    <2>7. QED BY <1>1, <1>2, <2>4, <2>5, <2>6 DEF Fate, Reborn
  <1>3. CASE q # c
    BY <1>1, <1>3, Nothing DEF Fork, Fate, Forked, PastOK, AgentOK, CallOK
  <1>4. QED BY <1>2, <1>3

LEMMA ForkReturnsFate ==
  ASSUME Shape, NEW p \in Pids, ForkReturns(p), NEW q \in Pids
  PROVE  Fate(q)
  <1> USE DEF Shape, Types
  <1>1. CASE q = p
    BY <1>1 DEF ForkReturns, At, Fate, OutOfFork, SameProgram, Forked, Traced
  <1>2. CASE q # p
    BY <1>2, Nothing DEF ForkReturns, Fate, Forked, CallOK
  <1>3. QED BY <1>1, <1>2

LEMMA ExecFate ==
  ASSUME Shape, NEW p \in Pids, NEW kept \in BOOLEAN, Exec(p, kept),
         NEW q \in Pids
  PROVE  Fate(q)
  <1> USE DEF Shape, Types
  <1>1. ~ Traced(p)' /\ OtherAgentsKeep(p)
    BY LoadEffect DEF Exec
  <1>2. CASE q = p
    <2>1. past'[p] = Birth /\ Birth.image = images + 1
      BY BirthFields DEF Exec, PastOK
    <2>2. QED BY <1>1, <1>2, <2>1 DEF Exec, Fate, Reborn
  <1>3. CASE q # p
    BY <1>1, <1>3, Nothing DEF Exec, Fate, Forked, PastOK, OtherAgentsKeep
  <1>4. QED BY <1>2, <1>3

LEMMA GoneFate ==
  ASSUME Shape, NEW p \in Pids, Gone(p), UNCHANGED <<tracing, data, images>>,
         NEW q \in Pids
  PROVE  Fate(q)
  <1> USE DEF Shape, Types
  <1>1. CASE q = p
    BY <1>1 DEF Gone, Unload, Fate, Ended, Traced, AgentOK, PastOK
  <1>2. CASE q # p
    BY <1>2, Nothing DEF Gone, Unload, Fate, Forked, CallOK, PastOK, AgentOK
  <1>3. QED BY <1>1, <1>2

\* The steps of a write() or read() on its way touch nothing of it.
LEMMA CallStepFate ==
  ASSUME Shape, NEW p \in Pids, ~ Forked(p), ~ Forked(p)', OtherCallsKeep(p),
         UNCHANGED <<alive, tracing, images, past>>,
         NEW q \in Pids, Traced(q)' <=> Traced(q)
  PROVE  Fate(q)
  BY DEF Fate, Untouched, Forked, OtherCallsKeep

LEMMA WriteEntryFate ==
  ASSUME Shape, NEW p \in Pids, NEW fd \in Fds, WriteEntry(p, fd),
         NEW q \in Pids
  PROVE  Fate(q)
  <1> USE DEF Shape, Types
  <1> DEFINE c == WriteChannel(p, fd)
  <1>1. Traced(q)' <=> Traced(q)
    <2>1. CASE Traced(p)
      <3>1. c \in Channels
        BY <2>1, WriteChannelType DEF WriteEntry
      <3>2. agent' = [agent EXCEPT ![p] = [agent[p] EXCEPT ![fd] = c]]
        BY <2>1 DEF WriteEntry
      <3> HIDE DEF c
      <3>3. OtherAgentsKeep(p) /\ Traced(p)'
        BY <2>1, <3>1, <3>2, ChannelSet
      <3>4. QED BY <2>1, <3>3 DEF OtherAgentsKeep, Traced
    <2>2. CASE ~ Traced(p)
      BY <2>2 DEF WriteEntry, Traced
    <2>3. QED BY <2>1, <2>2
  <1>2. OtherCallsKeep(p) /\ ~ Forked(p) /\ ~ Forked(p)'
    <2> DEFINE x == IF ~ Traced(p) \/ (~ c.injected /\ c.remote = NoPid)
                      THEN "write"
                      ELSE IF c.injected THEN "tell" ELSE "inject"
    <2>1. call' = [call EXCEPT ![p] = [at |-> x, fd |-> fd, told |-> Untold]]
      BY DEF WriteEntry
    <2>2. x # "forked"
      OBVIOUS
    <2> HIDE DEF x
    <2>3. QED BY <2>1, <2>2
              DEF WriteEntry, At, Forked, CallOK, OtherCallsKeep
  <1>3. QED BY <1>1, <1>2, CallStepFate DEF WriteEntry

LEMMA MoveFate ==
  ASSUME Shape, NEW p \in Pids, NEW q \in Pids,
         \/ InjectLook(p) \/ Attach(p) \/ InjectRefused(p) \/ Write(p)
         \/ Read(p) \/ \E fd \in Fds : ReadEntry(p, fd)
  PROVE  Fate(q)
  <1> USE DEF Shape, Types
  <1>1. Traced(q)' <=> Traced(q)
    BY DEF Traced, InjectLook, Attach, InjectRefused, Write, Read, ReadEntry
  <1>2. UNCHANGED <<alive, tracing, images, past>>
    BY DEF InjectLook, Attach, InjectRefused, Write, Read, ReadEntry
  <1>3. OtherCallsKeep(p) /\ ~ Forked(p) /\ ~ Forked(p)'
    <2>1. CASE InjectLook(p) \/ Attach(p) \/ InjectRefused(p)
      <3>1. PICK place \in {"tell", "create", "attached", "write"} :
              /\ Goto(p, place)
              /\ call[p].at \in {"inject", "create", "attached", "loading"}
        BY <2>1 DEF InjectLook, Attach, InjectRefused, At
      <3>2. OtherCallsKeep(p) /\ call'[p].at = place
        BY <3>1, GotoEffect DEF SenderPlaces, Injecting
      <3>3. QED BY <3>1, <3>2 DEF Forked
    <2>2. CASE Write(p) \/ Read(p)
      <3>1. call' = [call EXCEPT ![p] = Idle]
        BY <2>2 DEF Write, Read
      <3>2. call[p].at # "forked"
        BY <2>2 DEF Write, Read, At
      <3>3. QED BY <3>1, <3>2, CallTypes, CallSet DEF Forked
    <2>3. ASSUME NEW fd \in Fds, ReadEntry(p, fd)
          PROVE  OtherCallsKeep(p) /\ ~ Forked(p) /\ ~ Forked(p)'
      BY <2>3 DEF ReadEntry, At, Forked, OtherCallsKeep, CallOK
    <2>4. QED BY <2>1, <2>2, <2>3
  <1>4. QED BY <1>1, <1>2, <1>3, CallStepFate

\* PipeCall, Halt and stuttering.
LEMMA IdleFate ==
  ASSUME NEW q \in Pids, UNCHANGED <<alive, agent, tracing, call, images, past>>
  PROVE  Fate(q)
  BY Nothing DEF Fate, Forked

LEMMA InjectFate ==
  ASSUME Shape, NEW p \in Pids,
         InjectFinds(p) \/ InjectLoads(p) \/ InjectLoaded(p), NEW r \in Pids
  PROVE  Fate(r)
  <1> USE DEF Shape, Types
  <1>1. /\ call[p].at \in {"attached", "loading"}
        /\ Goto(p, "tell") \/ Goto(p, "loading")
        /\ UNCHANGED <<alive, tracing, images, past>>
    BY DEF InjectFinds, InjectLoads, InjectLoaded, Injected, At
  <1>2. OtherCallsKeep(p) /\ ~ Forked(p) /\ ~ Forked(p)'
    BY <1>1, GotoEffect DEF SenderPlaces, Injecting, Forked
  <1>3. Traced(r)' <=> Traced(r)
    <2>1. CASE InjectLoads(p)
      <3>1. PICK q \in Pids : Load(q) /\ ~ Traced(q)
        BY <1>1, <2>1, InHand DEF InjectLoads, HasAgent, Traced, Injecting
      <3>2. ~ Traced(q)' /\ OtherAgentsKeep(q)
        BY <3>1, LoadEffect
      <3>3. QED BY <3>1, <3>2 DEF OtherAgentsKeep, Traced
    <2>2. CASE Injected(p)
      BY <1>1, <2>2, InHand, InjectedEffect
         DEF OtherAgentsKeep, Traced, Injecting
    <2>3. QED BY <2>1, <2>2 DEF InjectFinds, InjectLoaded
  <1>4. QED BY <1>1, <1>2, <1>3, CallStepFate

LEMMA TellRemoteFate ==
  ASSUME Shape, NEW p \in Pids, TellRemote(p), NEW r \in Pids
  PROVE  Fate(r)
  <1> USE DEF Shape, Types
  <1>1. call[p].at = "tell"
    BY DEF TellRemote, At
  <1>2. PICK q \in Pids : q = Channel(p).remote
    BY <1>1 DEF CallHasChannel, HasChannel, Injecting
  <1>3. PICK b \in BOOLEAN :
          /\ q \in alive => b
          /\ past' = [past EXCEPT ![q] = [past[q] EXCEPT !.asked = b]]
    <2>1. (q \in alive) \in BOOLEAN
      OBVIOUS
    <2>2. past' = [past EXCEPT ![q] = [past[q] EXCEPT !.asked = q \in alive]]
      BY <1>2 DEF TellRemote
    <2>3. QED BY <2>1, <2>2
  <1>4. OtherCallsKeep(p) /\ call'[p].at = "write"
    <2>1. PICK told \in Requests :
            call' = [call EXCEPT ![p] =
                       [call[p] EXCEPT !.at = "write", !.told = told]]
      BY <1>2, ToldType DEF TellRemote
    <2>2. QED BY <1>1, <2>1, TellEffect DEF SenderPlaces, Injecting
  <1>5. /\ Forked(r)' <=> Forked(r)
        /\ Traced(r)' <=> Traced(r)
        /\ alive' = alive /\ images' = images
        /\ tracing' = tracing \union {q}
    BY <1>1, <1>2, <1>4 DEF TellRemote, Forked, Traced, OtherCallsKeep
  <1>6. CASE r = q
    <2>1. past[q] \in Histories /\ past'[q] = [past[q] EXCEPT !.asked = b]
      BY <1>3 DEF PastOK
    <2>2. /\ past'[q].image = past[q].image
          /\ past'[q].asked = b /\ past'[q].hushed = past[q].hushed
      BY <2>1, HistoryFields
    <2>3. QED BY <1>3, <1>5, <1>6, <2>2 DEF Fate, Asked, SameProgram
  <1>7. CASE r # q
    BY <1>3, <1>5, <1>7 DEF Fate, Untouched, PastOK
  <1>8. QED BY <1>6, <1>7

LEMMA PopenFate ==
  ASSUME Shape, NEW p \in Pids, NEW c \in Pids, NEW dir \in {"r", "w"},
         NEW kept \in BOOLEAN, Popen(p, c, dir, kept), NEW q \in Pids
  PROVE  Fate(q)
  <1> USE DEF Shape, Types
  <1>1. /\ images' = images + 1 /\ alive' = alive \union {c}
        /\ past' = [past EXCEPT ![c] = Birth] /\ tracing' = tracing
        /\ call[p].at = "run" /\ images < MaxImages
    BY DEF Popen, At
  <1>2. ~ Traced(c)' /\ OtherAgentsKeep(c)
    BY LoadEffect DEF Popen
  <1>3. PICK fd : call' = [call EXCEPT ![p] = [at |-> "popen", fd |-> fd],
                                       ![c] = Idle]
    BY DEF Popen
  <1>4. CASE q = c
    <2>1. past'[c] = Birth /\ Birth.image = images + 1
      BY <1>1, BirthFields DEF PastOK
    <2>2. QED BY <1>1, <1>2, <1>4, <2>1 DEF Fate, Reborn
  <1>5. CASE q # c
    <2>1. Forked(q)' <=> Forked(q)
      <3> DEFINE x == [at |-> "popen", fd |-> fd]
      <3>1. x.at = "popen"
        OBVIOUS
      <3>2. call' = [call EXCEPT ![p] = x, ![c] = Idle]
        BY <1>3
      <3> HIDE DEF x
      <3>3. QED BY <1>1, <1>5, <3>1, <3>2 DEF Forked, CallOK
    <2>2. QED BY <1>1, <1>2, <1>5, <2>1, Nothing
              DEF Fate, PastOK, OtherAgentsKeep
  <1>6. QED BY <1>4, <1>5

LEMMA PopenReturnsFate ==
  ASSUME Shape, NEW p \in Pids, PopenReturns(p), NEW r \in Pids
  PROVE  Fate(r)
  <1> USE DEF Shape, Types
  <1>1. call[p].at = "popen" /\ Traced(p)
    BY DEF PopenReturns, At, CallHasChannel, HasChannel
  <1>2. PICK fd \in Fds : fd = call[p].fd /\ file[p][fd] # NoFile
    BY <1>1, CallPipe
  <1>3. PICK c \in Channels : c = WriteChannel(p, fd)
    BY <1>1, <1>2, WriteChannelType
  <1>4. Traced(r)' <=> Traced(r)
    <2>1. agent' = [agent EXCEPT ![p] = [agent[p] EXCEPT ![fd] = c]]
      BY <1>2, <1>3 DEF PopenReturns
    <2>2. ASSUME NEW x \in Channels \union {NoChannel},
                 agent' = [agent EXCEPT ![p] = [agent[p] EXCEPT ![fd] = x]]
          PROVE  OtherAgentsKeep(p) /\ Traced(p)'
      BY <1>1, <2>2, ChannelSet
    <2>3. QED BY <1>1, <2>1, <2>2 DEF OtherAgentsKeep, Traced
  <1>5. Forked(r)' <=> Forked(r)
    <2>1. call' = [call EXCEPT ![p] = Idle]
      BY DEF PopenReturns
    <2>2. QED BY <1>1, <2>1, CallTypes, CallSet DEF Forked, OtherCallsKeep
  <1>6. /\ alive' = alive /\ images' = images
        /\ tracing' = tracing \ {c.remote}
        /\ past' = IF c.remote \notin alive
                     THEN past
                     ELSE [past EXCEPT ![c.remote].hushed = TRUE]
    BY <1>2, <1>3 DEF PopenReturns
  <1>7. CASE r = c.remote /\ r \in alive
    <2>1. past[r] \in Histories /\ past'[r] = [past[r] EXCEPT !.hushed = TRUE]
      BY <1>6, <1>7 DEF PastOK
    <2>2. past'[r].image = past[r].image /\ past'[r].hushed
      BY <2>1, HistoryFields
    <2>3. QED BY <1>4, <1>6, <1>7, <2>2 DEF Fate, Hushed, SameProgram
  <1>8. CASE r = c.remote /\ r \notin alive
    BY <1>4, <1>6, <1>8 DEF Fate, Hushed, SameProgram
  <1>9. CASE r # c.remote
    BY <1>4, <1>5, <1>6, <1>9 DEF Fate, Untouched, PastOK
  <1>10. QED BY <1>7, <1>8, <1>9

LEMMA StepFate ==
  ASSUME Shape, [Next]_vars, NEW q \in Pids
  PROVE  Fate(q)
  <1>1. ASSUME NEW p \in Pids, AgentStep(p) PROVE Fate(q)
    BY <1>1, ForkReturnsFate, MoveFate, GoneFate, InjectFate,
       TellRemoteFate, PopenReturnsFate
       DEF AgentStep, AttachFails
  <1>2. ASSUME NEW p \in Pids, Program(p) PROVE Fate(q)
    <2>1. CASE LoadByHand(p) \/ Write(p) \/ Read(p)
      BY <2>1, LoadFate, MoveFate
    <2>2. CASE PipeCall(p)
      BY <2>2, IdleFate DEF PipeCall
    <2>3. CASE Die(p)
      BY <2>3, GoneFate DEF Die
    <2>4. ASSUME NEW fd \in Fds,
                 Close(p, fd) \/ Pclose(p, fd) \/ WriteEntry(p, fd)
                   \/ ReadEntry(p, fd)
          PROVE  Fate(q)
      BY <2>4, CloseFate, WriteEntryFate, MoveFate
    <2>5. CASE \E c \in Pids : Fork(p, c)
      BY <2>5, ForkFate
    <2>6. CASE \E kept \in BOOLEAN : Exec(p, kept)
      BY <2>6, ExecFate
    <2>7. CASE \E c \in Pids, dir \in {"r", "w"}, kept \in BOOLEAN :
                 Popen(p, c, dir, kept)
      BY <2>7, PopenFate
    <2>8. QED BY <1>2, <2>1, <2>2, <2>3, <2>4, <2>5, <2>6, <2>7 DEF Program
  <1>3. ASSUME NEW p \in Pids, System(p) PROVE Fate(q)
    BY <1>3, ConstructFate, LoadFate, IdleFate DEF System, Halt
  <1>4. CASE UNCHANGED vars
    BY <1>4, IdleFate DEF vars
  <1>5. QED BY <1>1, <1>2, <1>3, <1>4 DEF Next

-----------------------------------------------------------------------------
(***************************************************************************)
(* AskedToTrace.                                                           *)
(***************************************************************************)
Flags == Shape /\ AskedToTrace

LEMMA InitFlags == Init => Flags
  <1> SUFFICES ASSUME Init PROVE Flags
    OBVIOUS
  <1>1. Shape
    BY InitShape
  <1>2. AskedToTrace
    BY DEF Init, AskedToTrace
  <1>3. QED BY <1>1, <1>2 DEF Flags

LEMMA StepFlags == Flags /\ [Next]_vars => Flags'
  <1> SUFFICES ASSUME Flags, [Next]_vars PROVE Flags'
    OBVIOUS
  <1>1. Shape /\ AskedToTrace
    BY DEF Flags
  <1>2. Shape'
    BY <1>1, StepShape
  <1>3. \A q \in Pids : Fate(q)
    BY <1>1, StepFate
  <1>4. ASSUME NEW q \in alive' \cap tracing', Traced(q)', ~ Forked(q)'
        PROVE  past'[q].asked
    <2>1. q \in Pids
      BY <1>2 DEF Shape, Types, AliveOK
    <2>2. q \in alive /\ q \in tracing /\ Traced(q) /\ ~ Forked(q)
            => past[q].asked
      BY <1>1 DEF AskedToTrace, Forked
    <2>3. QED BY <1>3, <1>4, <2>1, <2>2
              DEF Fate, Untouched, Reborn, Ended, Constructed, OutOfFork, Asked,
                  Hushed, SameProgram
  <1>5. QED BY <1>2, <1>4 DEF Flags, AskedToTrace, Forked

\* A byte left behind by the last owner of a pid never starts a program: the
\* agent's constructor and the exit wrapper of fork clear it in time.
THEOREM AskedToTraceHolds == Spec => []AskedToTrace
  <1>1. Flags => AskedToTrace
    BY DEF Flags
  <1>2. QED BY <1>1, InitFlags, StepFlags, PTL DEF Spec

-----------------------------------------------------------------------------
(***************************************************************************)
(* AnnouncedIsTraced: what is known of a program that was told of a        *)
(* request stays true until the request is read.                           *)
(***************************************************************************)
Ready(q, image) ==
  /\ image <= images
  /\ q \in alive /\ past[q].image = image /\ ~ past[q].hushed
       => q \in tracing /\ Traced(q) /\ ~ Forked(q)

InData(q, image) ==
  \E pipe \in Pipes : \E i \in 1 .. Len(data[pipe]) :
    data[pipe][i] = <<q, image>>

InCall(q, image) ==
  \E p \in Pids : call[p].at \in SenderPlaces /\ call[p].told = <<q, image>>

ToldAreReady ==
  \A q \in Pids, image \in 0..MaxImages :
    InData(q, image) \/ InCall(q, image) => Ready(q, image)

\* No program is newer than the last one started.
ImagesSoFar == \A q \in Pids : past[q].image <= images

Announced == Flags /\ ToldAreReady /\ ImagesSoFar

LEMMA ImageKept ==
  ASSUME Shape, Shape', NEW q \in Pids, Fate(q), past[q].image <= images
  PROVE  past'[q].image <= images'
  <1>1. /\ past[q].image \in Nat /\ past'[q].image \in Nat
        /\ images \in Nat /\ images' \in Nat
    BY IpcAssumption DEF Shape, Types, PastOK, ImagesOK, Histories
  <1>2. Unborn.image = 0
    BY DEF Unborn
  <1>3. QED BY <1>1, <1>2 DEF Fate, Untouched, Reborn, Ended, Constructed, OutOfFork,
                              Asked, Hushed, SameProgram

LEMMA ReadyKept ==
  ASSUME ImagesOK, NEW q \in Pids, NEW image \in 0..MaxImages, Fate(q),
         Ready(q, image)
  PROVE  Ready(q, image)'
  <1>1. images \in Nat /\ image \in Nat
    BY IpcAssumption DEF ImagesOK
  <1>2. CASE Untouched(q)
    BY <1>1, <1>2 DEF Ready, Untouched
  <1>3. CASE Reborn(q)
    BY <1>1, <1>3 DEF Ready, Reborn
  <1>4. CASE Ended(q)
    BY <1>1, <1>4 DEF Ready, Ended
  <1>5. CASE Constructed(q) \/ OutOfFork(q) \/ Asked(q) \/ Hushed(q)
    BY <1>5 DEF Ready, Constructed, OutOfFork, Asked, Hushed, SameProgram
  <1>6. QED BY <1>2, <1>3, <1>4, <1>5 DEF Fate

\* A request in a pipe was there, or its writer had it in hand.
LEMMA DataOrigin ==
  ASSUME Shape, [Next]_vars, NEW q \in Pids, NEW image \in 0..MaxImages,
         InData(q, image)'
  PROVE  InData(q, image) \/ InCall(q, image)
  <1> USE DEF Shape, Types
  <1>1. PICK pipe \in Pipes : \E i \in 1 .. Len(data'[pipe]) :
          data'[pipe][i] = <<q, image>>
    BY DEF InData
  <1>2. PICK i \in 1 .. Len(data'[pipe]) : data'[pipe][i] = <<q, image>>
    BY <1>1
  <1>3. data[pipe] \in Seq(Requests)
    BY DEF DataOK
  <1>4. CASE data'[pipe] = data[pipe]
    BY <1>2, <1>4 DEF InData
  <1>5. CASE data'[pipe] = <<>>
    BY <1>2, <1>5
  <1>6. CASE data[pipe] # <<>> /\ data'[pipe] = Tail(data[pipe])
    <2>1. i + 1 \in 1 .. Len(data[pipe]) /\ data[pipe][i + 1] = <<q, image>>
      BY <1>2, <1>3, <1>6
    <2>2. QED BY <2>1 DEF InData
  <1>7. ASSUME NEW p \in Pids, call[p].at = "write",
               data'[pipe] = Append(data[pipe], call[p].told)
        PROVE  InData(q, image) \/ InCall(q, image)
    <2>1. call[p].told \in Requests
      BY <1>7, CallFields DEF CallOK, SenderPlaces
    <2>2. CASE i \in 1 .. Len(data[pipe])
      <3>1. data[pipe][i] = <<q, image>>
        BY <1>2, <1>3, <1>7, <2>1, <2>2
      <3>2. QED BY <2>2, <3>1 DEF InData
    <2>3. CASE i \notin 1 .. Len(data[pipe])
      <3>1. i = Len(data[pipe]) + 1
        BY <1>2, <1>3, <1>7, <2>1, <2>3
      <3>2. call[p].told = <<q, image>>
        BY <1>2, <1>3, <1>7, <2>1, <3>1
      <3>3. QED BY <1>7, <3>2 DEF InCall, SenderPlaces
    <2>4. QED BY <2>2, <2>3
  <1>8. ASSUME Next
        PROVE  \/ data'[pipe] = data[pipe]
               \/ data'[pipe] = <<>>
               \/ data[pipe] # <<>> /\ data'[pipe] = Tail(data[pipe])
               \/ \E r \in Pids :
                    /\ call[r].at = "write"
                    /\ data'[pipe] = Append(data[pipe], call[r].told)
    <2>1. ASSUME NEW r \in Pids, PipeCall(r)
          PROVE  data'[pipe] = data[pipe] \/ data'[pipe] = <<>>
      BY <2>1 DEF PipeCall, DataOK
    <2>2. ASSUME NEW r \in Pids, NEW c \in Pids, NEW dir \in {"r", "w"},
                 NEW kept \in BOOLEAN, Popen(r, c, dir, kept)
          PROVE  data'[pipe] = data[pipe] \/ data'[pipe] = <<>>
      BY <2>2 DEF Popen, DataOK
    <2>3. ASSUME NEW r \in Pids, Write(r)
          PROVE  \/ data'[pipe] = data[pipe]
                 \/ /\ call[r].at = "write"
                    /\ data'[pipe] = Append(data[pipe], call[r].told)
      BY <2>3 DEF Write, At, DataOK
    <2>4. ASSUME NEW r \in Pids, Read(r)
          PROVE  \/ data'[pipe] = data[pipe]
                 \/ data[pipe] # <<>> /\ data'[pipe] = Tail(data[pipe])
      BY <2>4 DEF Read, DataOK
    <2>5. ASSUME NEW r \in Pids, AgentStep(r) \/ System(r)
          PROVE  data' = data
      BY <2>5 DEF AgentStep, System, Construct, Decline, Halt, ForkReturns,
                  InjectLook, Attach, AttachFails, InjectFinds, InjectLoads,
                  InjectLoaded, Injected, InjectRefused, TellRemote,
                  PopenReturns
    <2>6. ASSUME NEW r \in Pids,
                 \/ LoadByHand(r) \/ Die(r)
                 \/ \E fd \in Fds : \/ Close(r, fd) \/ Pclose(r, fd)
                                    \/ WriteEntry(r, fd) \/ ReadEntry(r, fd)
                 \/ \E c \in Pids : Fork(r, c)
                 \/ \E kept \in BOOLEAN : Exec(r, kept)
          PROVE  data' = data
      BY <2>6 DEF LoadByHand, Die, Close, Pclose, WriteEntry, ReadEntry, Fork,
                  Exec
    <2>7. QED BY <1>8, <2>1, <2>2, <2>3, <2>4, <2>5, <2>6 DEF Next, Program
  <1>9. CASE UNCHANGED vars
    BY <1>4, <1>9 DEF vars
  <1>10. QED BY <1>4, <1>5, <1>6, <1>7, <1>8, <1>9 DEF Next

\* A request in hand was in hand before, or nobody was told of it, or it has
\* just been announced to a program that is ready.
LEMMA CallOrigin ==
  ASSUME Shape, [Next]_vars, NEW q \in Pids, NEW image \in 0..MaxImages,
         InCall(q, image)', past[q].image <= images
  PROVE  InCall(q, image) \/ Ready(q, image)'
  <1> USE DEF Shape, Types
  <1>1. PICK r \in Pids : /\ call'[r].at \in SenderPlaces
                          /\ call'[r].told = <<q, image>>
    BY DEF InCall
  <1>2. CASE call'[r] = call[r]
    BY <1>1, <1>2 DEF InCall
  <1>3. CASE call'[r].at \notin SenderPlaces
    BY <1>1, <1>3
  <1>4. CASE call'[r].told = Untold
    BY <1>1, <1>4, IpcAssumption DEF Untold
  <1>5. CASE call[r].at \in SenderPlaces /\ call'[r].told = call[r].told
    BY <1>1, <1>5 DEF InCall
  <1> DEFINE Old == \/ call'[r] = call[r]
                    \/ call'[r].at \notin SenderPlaces
                    \/ call'[r].told = Untold
                    \/ call[r].at \in SenderPlaces /\ call'[r].told = call[r].told
  <1>6. ASSUME Old PROVE InCall(q, image) \/ Ready(q, image)'
    BY <1>2, <1>3, <1>4, <1>5, <1>6
  <1>7. Idle.at \notin SenderPlaces
    BY DEF Idle, SenderPlaces, Injecting
  <1>8. ASSUME NEW p \in Pids,
               \/ LoadByHand(p) \/ PipeCall(p) \/ System(p)
               \/ \E fd \in Fds : Close(p, fd) \/ Pclose(p, fd)
               \/ \E kept \in BOOLEAN : Exec(p, kept)
        PROVE  Old
    BY <1>8 DEF LoadByHand, PipeCall, System, Construct, Decline, Halt, Close,
                Pclose, Exec
  <1>9. ASSUME NEW p \in Pids,
               \/ ForkReturns(p) \/ AttachFails(p) \/ Die(p) \/ Write(p)
               \/ Read(p) \/ PopenReturns(p)
        PROVE  Old
    <2>1. call' = [call EXCEPT ![p] = Idle]
      BY <1>9 DEF ForkReturns, AttachFails, Die, Gone, Write, Read, PopenReturns
    <2>2. QED BY <1>7, <2>1, CallTypes, CallSet DEF OtherCallsKeep
  <1>10. ASSUME NEW p \in Pids, NEW c \in Pids, Fork(p, c)
         PROVE  Old
    <2>1. call'[r] = call[r] \/ call'[r] = Idle \/ call'[r] = [at |-> "forked"]
      BY <1>10 DEF Fork, CallOK
    <2>2. [at |-> "forked"].at \notin SenderPlaces
      BY DEF SenderPlaces, Injecting
    <2>3. QED BY <1>7, <2>1, <2>2
  <1>11. ASSUME NEW p \in Pids, NEW c \in Pids, NEW dir \in {"r", "w"},
                NEW kept \in BOOLEAN, Popen(p, c, dir, kept)
         PROVE  Old
    <2>1. PICK fd : call' = [call EXCEPT ![p] = [at |-> "popen", fd |-> fd],
                                         ![c] = Idle]
      BY <1>11 DEF Popen
    <2> DEFINE x == [at |-> "popen", fd |-> fd]
    <2>2. x.at \notin SenderPlaces
      BY DEF SenderPlaces, Injecting
    <2>3. call' = [call EXCEPT ![p] = x, ![c] = Idle]
      BY <2>1
    <2> HIDE DEF x
    <2>4. call'[r] = call[r] \/ call'[r] = x \/ call'[r] = Idle
      BY <2>3 DEF CallOK
    <2>5. QED BY <1>7, <2>2, <2>4
  <1>12. ASSUME NEW p \in Pids, NEW fd \in Fds, WriteEntry(p, fd)
         PROVE  Old
    <2>1. PICK place :
            call' = [call EXCEPT ![p] =
                       [at |-> place, fd |-> fd, told |-> Untold]]
      BY <1>12 DEF WriteEntry
    <2> DEFINE x == [at |-> place, fd |-> fd, told |-> Untold]
    <2>2. x.told = Untold
      OBVIOUS
    <2>3. call' = [call EXCEPT ![p] = x]
      BY <2>1
    <2> HIDE DEF x
    <2>4. call'[r] = call[r] \/ call'[r] = x
      BY <2>3 DEF CallOK
    <2>5. QED BY <2>2, <2>4
  <1>13. ASSUME NEW p \in Pids, NEW fd \in Fds, ReadEntry(p, fd)
         PROVE  Old
    <2> DEFINE x == [at |-> "read", fd |-> fd]
    <2>1. x.at \notin SenderPlaces
      BY DEF SenderPlaces, Injecting
    <2>2. call' = [call EXCEPT ![p] = x]
      BY <1>13 DEF ReadEntry
    <2> HIDE DEF x
    <2>3. call'[r] = call[r] \/ call'[r] = x
      BY <2>2 DEF CallOK
    <2>4. QED BY <2>1, <2>3
  <1>14. ASSUME NEW p \in Pids,
                \/ InjectLook(p) \/ Attach(p) \/ InjectFinds(p)
                \/ InjectLoads(p) \/ InjectLoaded(p) \/ InjectRefused(p)
         PROVE  Old
    <2>1. PICK place \in SenderPlaces :
            Goto(p, place) /\ call[p].at \in SenderPlaces
      BY <1>14 DEF InjectLook, Attach, InjectFinds, InjectLoads, InjectLoaded,
                   Injected, InjectRefused, At, SenderPlaces, Injecting
    <2>2. OtherCallsKeep(p) /\ call'[p].told = call[p].told
      BY <2>1, GotoEffect
    <2>3. QED BY <2>1, <2>2 DEF OtherCallsKeep
  <1>15. ASSUME NEW p \in Pids, TellRemote(p), ~ Old
         PROVE  Ready(q, image)'
    <2>1. call[p].at = "tell" /\ Channel(p).remote \in Pids
      BY <1>15 DEF TellRemote, At, CallHasChannel, HasChannel, Injecting
    <2>2. PICK s \in Pids : s = Channel(p).remote
      BY <2>1
    <2>3. /\ OtherCallsKeep(p) /\ call'[p].at = "write"
          /\ call'[p].told = Told(s)
      <3>1. PICK told \in Requests :
              /\ told = Told(s)
              /\ call' = [call EXCEPT ![p] =
                            [call[p] EXCEPT !.at = "write", !.told = told]]
        BY <1>15, <2>2, ToldType DEF TellRemote
      <3>2. QED BY <2>1, <3>1, TellEffect DEF SenderPlaces, Injecting
    <2>4. r = p /\ Told(s) = <<q, image>> /\ Told(s) # Untold
      BY <1>1, <1>15, <2>3 DEF OtherCallsKeep
    <2>5. /\ s = q /\ image = past[q].image
          /\ q \in alive /\ Traced(q) /\ ~ Forked(q)
      BY <2>4 DEF Told, Forked
    <2>6. /\ q \in tracing' /\ images' = images
          /\ Traced(q)' /\ ~ Forked(q)'
      BY <1>15, <2>1, <2>2, <2>3, <2>5
         DEF TellRemote, Traced, Forked, OtherCallsKeep
    <2>7. QED BY <2>5, <2>6 DEF Ready
  <1>16. CASE UNCHANGED vars
    BY <1>6, <1>16 DEF vars
  <1>17. QED BY <1>6, <1>8, <1>9, <1>10, <1>11, <1>12, <1>13, <1>14, <1>15, <1>16
             DEF Next, AgentStep, Program


LEMMA InitAnnounced == Init => Announced
  <1> SUFFICES ASSUME Init PROVE Announced
    OBVIOUS
  <1>1. Flags
    BY InitFlags
  <1>2. ImagesSoFar
    BY DEF Init, ImagesSoFar, Unborn
  <1>3. ASSUME NEW q \in Pids, NEW image \in 0..MaxImages
        PROVE  ~ InData(q, image) /\ ~ InCall(q, image)
    <2>1. \A pipe \in Pipes : Len(data[pipe]) = 0
      BY DEF Init
    <2>2. \A p \in Pids : call[p].at \notin SenderPlaces
      BY DEF Init, Idle, SenderPlaces, Injecting
    <2>3. QED BY <2>1, <2>2 DEF InData, InCall
  <1>4. QED BY <1>1, <1>2, <1>3 DEF Announced, ToldAreReady

LEMMA StepAnnounced == Announced /\ [Next]_vars => Announced'
  <1> SUFFICES ASSUME Announced, [Next]_vars PROVE Announced'
    OBVIOUS
  <1>1. Flags /\ Shape /\ ToldAreReady /\ ImagesSoFar /\ ImagesOK
    BY DEF Announced, Flags, Shape, Types
  <1>2. Flags' /\ Shape'
    BY <1>1, StepFlags DEF Flags
  <1>3. \A q \in Pids : Fate(q)
    BY <1>1, StepFate DEF Flags
  <1>4. ImagesSoFar'
    BY <1>1, <1>2, <1>3, ImageKept DEF ImagesSoFar
  <1>5. ASSUME NEW q \in Pids, NEW image \in 0..MaxImages,
               InData(q, image)' \/ InCall(q, image)'
        PROVE  Ready(q, image)'
    <2>1. Ready(q, image) => Ready(q, image)'
      BY <1>1, <1>3, ReadyKept
    <2>2. CASE InData(q, image)'
      BY <1>1, <2>1, <2>2, DataOrigin DEF ToldAreReady
    <2>3. CASE InCall(q, image)'
      <3>1. past[q].image <= images
        BY <1>1 DEF ImagesSoFar
      <3>2. QED BY <1>1, <2>1, <2>3, <3>1, CallOrigin DEF ToldAreReady
    <2>4. QED BY <1>5, <2>2, <2>3
  <1>6. ToldAreReady'
    BY <1>5 DEF ToldAreReady
  <1>7. QED BY <1>2, <1>4, <1>6 DEF Announced

LEMMA ReadyIsTraced == Announced => ReadsAnnounced
  <1> SUFFICES ASSUME Announced, NEW p \in Pids, Read(p),
                      data[file[p][call[p].fd].pipe] # <<>>,
                      Head(data[file[p][call[p].fd].pipe])
                        = <<p, past[p].image>>,
                      ~ past[p].hushed
               PROVE  p \in tracing
    BY DEF ReadsAnnounced
  <1>1. Shape /\ ToldAreReady
    BY DEF Announced, Flags
  <1>2. call[p].at = "read" /\ p \in alive
    BY DEF Read, At, Running
  <1>3. PICK pipe \in Pipes : pipe = file[p][call[p].fd].pipe
    <2>1. call[p].fd \in Fds /\ file[p][call[p].fd] # NoFile
      BY <1>1, <1>2, CallFields DEF Shape, Types, CallOK, CallHasFile, HasFile
    <2>2. QED BY <1>1, <2>1, FilesType DEF Shape, Types, FileOK
  <1>4. PICK image \in 0..MaxImages : image = past[p].image
    BY <1>1 DEF Shape, Types, PastOK, Histories
  <1>5. InData(p, image)
    <2>1. data[pipe] \in Seq(Requests) /\ data[pipe] # <<>>
      BY <1>1, <1>3 DEF Shape, Types, DataOK
    <2>2. 1 \in 1 .. Len(data[pipe]) /\ data[pipe][1] = Head(data[pipe])
      BY <2>1
    <2>3. QED BY <1>3, <1>4, <2>2 DEF InData
  <1>6. Ready(p, image)
    BY <1>1, <1>5 DEF ToldAreReady
  <1>7. QED BY <1>2, <1>4, <1>6 DEF Ready

\* A request announced to the program that reads it, when its agent was
\* complete, finds its byte set: SetRemoteStartTracing(1) before the write()
\* is never undone on the way, whoever is injected, forks, dies or closes
\* files in between.  (A constructor still to return would undo it.)
THEOREM AnnouncedIsTracedHolds == Spec => AnnouncedIsTraced
  <1>1. Announced /\ [Next]_vars => [ReadsAnnounced]_vars
    BY ReadyIsTraced
  <1>2. QED BY <1>1, InitAnnounced, StepAnnounced, PTL
            DEF Spec, AnnouncedIsTraced

-----------------------------------------------------------------------------
(***************************************************************************)
(* HeldByAttacher: who is traced is traced by a writer inside Inject().    *)
(***************************************************************************)
Held(q) ==
  /\ q \in stopped => tracer[q] # NoPid
  /\ tracer[q] # NoPid => /\ q \in alive /\ tracer[q] \in alive
                          /\ call[tracer[q]].at \in {"attached", "loading"}
                          /\ Channel(tracer[q]).remote = q

Attached(t) == t \in alive /\ call[t].at \in {"attached", "loading"}

\* A writer that is attached stays so, and its channel with it.
Keeps(t) == Attached(t)' /\ Channel(t)' = Channel(t)

\* It stays altogether as it is.
Stays(t) == t \in alive' /\ call'[t] = call[t] /\ agent'[t] = agent[t]

LEMMA StaysKeeps ==
  ASSUME NEW t, Attached(t), Stays(t)
  PROVE  Keeps(t)
  BY DEF Attached, Stays, Keeps, Channel

LEMMA HeldKept ==
  ASSUME TracerOK, NEW q \in Pids, Held(q),
         \A t \in Pids : Attached(t) /\ tracer[q] = t => Keeps(t) \/ Stays(t),
         q \in alive => q \in alive',
         tracer'[q] = tracer[q],
         q \in stopped' => q \in stopped \/ tracer[q] # NoPid
  PROVE  Held(q)'
  <1>1. CASE tracer[q] = NoPid
    BY <1>1 DEF Held
  <1>2. CASE tracer[q] # NoPid
    <2>1. PICK t \in Pids : t = tracer[q]
      BY <1>2 DEF TracerOK
    <2>2. Attached(t) /\ Channel(t).remote = q /\ q \in alive
      BY <1>2, <2>1 DEF Held, Attached
    <2>3. Keeps(t)
      BY <2>1, <2>2, StaysKeeps
    <2>4. /\ Channel(t)' = Channel(t) /\ t \in alive'
          /\ call'[t].at \in {"attached", "loading"}
      BY <2>3 DEF Keeps, Attached
    <2>5. QED BY <1>2, <2>1, <2>2, <2>4 DEF Held
  <1>3. QED BY <1>1, <1>2

\* The steps that are no concern of anybody attached.
LEMMA OthersStay ==
  ASSUME Shape, NEW p \in Pids, Program(p), ~ Die(p), NEW t \in Pids,
         Attached(t)
  PROVE  Stays(t)
  <1> USE DEF Shape, Types
  <1>1. CASE LoadByHand(p)
    BY <1>1 DEF LoadByHand, Load, At, Attached, Stays, AgentOK
  <1>2. CASE PipeCall(p)
    BY <1>2 DEF PipeCall, Attached, Stays
  <1>3. CASE Write(p) \/ Read(p)
    BY <1>3 DEF Write, Read, At, Attached, Stays, CallOK
  <1>4. ASSUME NEW fd \in Fds, Close(p, fd) \/ Pclose(p, fd)
        PROVE  Stays(t)
    <2>1. p # t
      BY <1>4 DEF Close, Pclose, At, Attached
    <2>2. agent'[t] = agent[t]
      BY <1>4, <2>1 DEF Close, Pclose, AgentOK
    <2>3. QED BY <1>4, <2>2 DEF Close, Pclose, Attached, Stays
  <1>5. ASSUME NEW fd \in Fds, WriteEntry(p, fd)
        PROVE  Stays(t)
    <2>1. p # t
      BY <1>5 DEF WriteEntry, At, Attached
    <2>2. agent'[t] = agent[t]
      BY <1>5, <2>1 DEF WriteEntry, AgentOK
    <2>3. call'[t] = call[t]
      BY <1>5, <2>1 DEF WriteEntry, CallOK
    <2>4. QED BY <1>5, <2>2, <2>3 DEF WriteEntry, Attached, Stays
  <1>6. ASSUME NEW fd \in Fds, ReadEntry(p, fd)
        PROVE  Stays(t)
    BY <1>6 DEF ReadEntry, At, Attached, Stays, CallOK
  <1>7. ASSUME NEW c \in Pids, Fork(p, c)
        PROVE  Stays(t)
    BY <1>7 DEF Fork, Attached, Stays, CallOK, AgentOK
  <1>8. ASSUME NEW kept \in BOOLEAN, Exec(p, kept)
        PROVE  Stays(t)
    <2>1. p # t
      BY <1>8 DEF Exec, At, Attached
    <2>2. agent'[t] = agent[t]
      BY <1>8, <2>1 DEF Exec, Load, Unload, AgentOK
    <2>3. QED BY <1>8, <2>2 DEF Exec, Attached, Stays
  <1>9. ASSUME NEW c \in Pids, NEW dir \in {"r", "w"}, NEW kept \in BOOLEAN,
               Popen(p, c, dir, kept)
        PROVE  Stays(t)
    <2>1. p # t /\ c # t
      BY <1>9 DEF Popen, At, Attached
    <2>2. agent'[t] = agent[t]
      BY <1>9, <2>1 DEF Popen, Load, Unload, AgentOK
    <2>3. PICK fd : call' = [call EXCEPT ![p] = [at |-> "popen", fd |-> fd],
                                         ![c] = Idle]
      BY <1>9 DEF Popen
    <2>4. call'[t] = call[t]
      BY <2>1, <2>3 DEF CallOK
    <2>5. QED BY <1>9, <2>2, <2>4 DEF Popen, Attached, Stays
  <1>10. QED BY <1>1, <1>2, <1>3, <1>4, <1>5, <1>6, <1>7, <1>8, <1>9
             DEF Program

LEMMA AgentStay ==
  ASSUME Shape, NEW p \in Pids,
         ForkReturns(p) \/ TellRemote(p) \/ PopenReturns(p),
         NEW t \in Pids, Attached(t)
  PROVE  Stays(t)
  <1> USE DEF Shape, Types
  <1>1. CASE ForkReturns(p)
    BY <1>1 DEF ForkReturns, At, Attached, Stays, CallOK
  <1>2. CASE TellRemote(p)
    <2>1. p # t
      BY <1>2 DEF TellRemote, At, Attached
    <2>2. call'[t] = call[t]
      BY <1>2, <2>1 DEF TellRemote, CallOK
    <2>3. QED BY <1>2, <2>2 DEF TellRemote, Attached, Stays
  <1>3. CASE PopenReturns(p)
    <2>1. p # t
      BY <1>3 DEF PopenReturns, At, Attached
    <2>2. call'[t] = call[t] /\ agent'[t] = agent[t]
      BY <1>3, <2>1 DEF PopenReturns, CallOK, AgentOK
    <2>3. QED BY <1>3, <2>2 DEF PopenReturns, Attached, Stays
  <1>4. QED BY <1>1, <1>2, <1>3

LEMMA AttachHeld ==
  ASSUME Shape, HeldByAttacher, NEW p \in Pids, Attach(p), NEW q \in Pids
  PROVE  Held(q)'
  <1> USE DEF Shape, Types
  <1>1. call[p].at = "create" /\ p \in alive
    BY DEF Attach, At, Running
  <1>2. PICK r \in Pids : r = Channel(p).remote
    BY <1>1 DEF CallHasChannel, HasChannel, Injecting
  <1>3. /\ tracer' = [tracer EXCEPT ![r] = p] /\ Goto(p, "attached")
        /\ r \in alive /\ p \in alive'
        /\ alive' = alive /\ agent' = agent /\ stopped' = stopped
    BY <1>1, <1>2 DEF Attach, Attachable
  <1>4. /\ OtherCallsKeep(p) /\ call'[p].at = "attached"
        /\ call'[p].fd = call[p].fd
    BY <1>1, <1>3, GotoEffect DEF SenderPlaces, Injecting
  <1>5. CASE q = r
    <2>1. Channel(p)' = Channel(p)
      BY <1>3, <1>4 DEF Channel
    <2>2. tracer'[q] = p /\ p # NoPid
      BY <1>3, <1>5, IpcAssumption DEF TracerOK
    <2>3. QED BY <1>2, <1>3, <1>4, <1>5, <2>1, <2>2 DEF Held
  <1>6. CASE q # r
    <2>1. Held(q)
      BY DEF HeldByAttacher, Held
    <2>2. \A t \in Pids : Attached(t) => Stays(t)
      BY <1>1, <1>3, <1>4 DEF Attached, Stays, OtherCallsKeep
    <2>3. tracer'[q] = tracer[q]
      BY <1>3, <1>6 DEF TracerOK
    <2>4. QED BY <1>3, <2>1, <2>2, <2>3, HeldKept
  <1>7. QED BY <1>5, <1>6

LEMMA GoneHeld ==
  ASSUME Shape, HeldByAttacher, NEW p \in Pids, Gone(p), NEW q \in Pids
  PROVE  Held(q)'
  <1> USE DEF Shape, Types
  <1>1. CASE tracer[q] = p \/ q = p
    BY <1>1 DEF Gone, Held
  <1>2. CASE tracer[q] # p /\ q # p
    <2>1. Held(q)
      BY DEF HeldByAttacher, Held
    <2>2. tracer'[q] = tracer[q]
      BY <1>2 DEF Gone
    <2>3. \A t \in Pids \ {p} : Attached(t) => Stays(t)
      BY DEF Gone, Unload, Attached, Stays, CallOK, AgentOK
    <2>4. /\ q \in alive => q \in alive'
          /\ q \in stopped' => q \in stopped
      BY <1>2 DEF Gone
    <2>5. QED BY <1>2, <2>1, <2>2, <2>3, <2>4, HeldKept
  <1>3. QED BY <1>1, <1>2

\* Who is attached has an agent at work, which nothing here touches.
LEMMA LoadStay ==
  ASSUME Shape, NEW p \in Pids, Construct(p) \/ Decline(p), NEW t \in Pids,
         Attached(t)
  PROVE  Stays(t)
  <1> USE DEF Shape, Types
  <1>1. Traced(t) /\ ~ Traced(p)
    BY InHand DEF Attached, Injecting, Construct, Decline, Constructing, Traced
  <1>2. t # p
    BY <1>1
  <1>3. agent'[t] = agent[t]
    BY <1>2 DEF Construct, Decline, AgentOK
  <1>4. QED BY <1>3 DEF Construct, Decline, Attached, Stays

\* The ends of an injection detach; the writer goes on.
LEMMA DetachHeld ==
  ASSUME Shape, HeldByAttacher, NEW p \in Pids,
         InjectFinds(p) \/ InjectLoaded(p) \/ InjectRefused(p),
         NEW q \in Pids
  PROVE  Held(q)'
  <1> USE DEF Shape, Types
  <1>1. call[p].at \in {"attached", "loading"} /\ p \in alive
    BY DEF InjectFinds, InjectLoaded, InjectRefused, At, Running
  <1>2. PICK r \in Pids : r = Channel(p).remote
    BY <1>1, InHand DEF Injecting
  <1>3. /\ Detach(p, r) /\ alive' = alive
        /\ Goto(p, "tell") \/ Goto(p, "write")
    BY <1>2 DEF InjectFinds, InjectLoaded, Injected, InjectRefused
  <1>4. OtherCallsKeep(p)
    BY <1>1, <1>3, GotoEffect DEF SenderPlaces, Injecting
  <1>5. OtherAgentsKeep(p)
    <2>1. CASE InjectRefused(p)
      BY <2>1 DEF InjectRefused, OtherAgentsKeep
    <2>2. CASE Injected(p)
      BY <1>1, <2>2, InjectedEffect DEF Injecting
    <2>3. QED BY <2>1, <2>2 DEF InjectFinds, InjectLoaded
  <1>6. /\ tracer[r] = p => tracer'[r] = NoPid /\ r \notin stopped'
        /\ tracer[r] # p => tracer'[r] = tracer[r]
        /\ \A s \in Pids \ {r} : tracer'[s] = tracer[s]
        /\ stopped' \subseteq stopped
    BY <1>3, DetachEffect
  <1>7. Held(q)
    BY DEF HeldByAttacher, Held
  <1>8. CASE tracer[q] = p
    <2>1. q = r
      BY <1>2, <1>7, <1>8, IpcAssumption DEF Held
    <2>2. QED BY <1>6, <1>8, <2>1 DEF Held
  <1>9. CASE tracer[q] # p
    <2>1. tracer'[q] = tracer[q]
      BY <1>6, <1>9
    <2>2. \A t \in Pids \ {p} : Attached(t) => Stays(t)
      BY <1>3, <1>4, <1>5 DEF Attached, Stays, OtherCallsKeep, OtherAgentsKeep
    <2>3. \A t \in Pids : Attached(t) /\ tracer[q] = t => Keeps(t) \/ Stays(t)
      BY <1>9, <2>2
    <2>4. QED BY <1>3, <1>6, <1>7, <2>1, <2>3, HeldKept
  <1>10. QED BY <1>8, <1>9

\* addLibrary(): the writer stays attached while the library comes in.
LEMMA InjectLoadsHeld ==
  ASSUME Shape, HeldByAttacher, NEW p \in Pids, InjectLoads(p), NEW q \in Pids
  PROVE  Held(q)'
  <1> USE DEF Shape, Types
  <1>1. /\ call[p].at = "attached" /\ p \in alive /\ Goto(p, "loading")
        /\ UNCHANGED <<alive, tracer, stopped>>
    BY DEF InjectLoads, At, Running
  <1>2. PICK r \in Pids : Load(r) /\ ~ Traced(r)
    BY <1>1, InHand DEF InjectLoads, HasAgent, Traced, Injecting
  <1>3. OtherAgentsKeep(r)
    BY <1>2, LoadEffect
  <1>4. /\ OtherCallsKeep(p)
        /\ call'[p].at = "loading" /\ call'[p].fd = call[p].fd
    BY <1>1, GotoEffect DEF SenderPlaces, Injecting
  <1>5. ASSUME NEW t \in Pids, Attached(t) PROVE Keeps(t)
    <2>1. Traced(t)
      BY <1>5, InHand DEF Attached, Injecting
    <2>2. agent'[t] = agent[t]
      BY <1>2, <1>3, <2>1 DEF OtherAgentsKeep
    <2>3. CASE t = p
      BY <1>1, <1>4, <2>2, <2>3 DEF Attached, Keeps, Channel
    <2>4. CASE t # p
      BY <1>1, <1>4, <1>5, <2>2, <2>4
         DEF Attached, Keeps, Channel, OtherCallsKeep
    <2>5. QED BY <2>3, <2>4
  <1>6. Held(q)
    BY DEF HeldByAttacher, Held
  <1>7. QED BY <1>1, <1>5, <1>6, HeldKept

LEMMA StepHeld == Shape /\ HeldByAttacher /\ [Next]_vars => HeldByAttacher'
  <1> SUFFICES ASSUME Shape, HeldByAttacher, [Next]_vars, NEW q \in Pids
               PROVE  Held(q)'
    BY DEF HeldByAttacher, Held
  <1>1. Held(q) /\ TracerOK
    BY DEF HeldByAttacher, Held, Shape, Types
  <1>2. ASSUME NEW p \in Pids, AgentStep(p) PROVE Held(q)'
    <2>1. CASE Attach(p)
      BY <2>1, AttachHeld
    <2>2. CASE AttachFails(p)
      BY <2>2, GoneHeld DEF AttachFails
    <2>3. CASE InjectFinds(p) \/ InjectLoaded(p) \/ InjectRefused(p)
      BY <2>3, DetachHeld
    <2>4. CASE ForkReturns(p) \/ TellRemote(p) \/ PopenReturns(p)
      <3>1. \A t \in Pids : Attached(t) => Stays(t)
        BY <2>4, AgentStay
      <3>2. alive' = alive /\ tracer' = tracer /\ stopped' = stopped
        BY <2>4 DEF ForkReturns, TellRemote, PopenReturns
      <3>3. QED BY <1>1, <3>1, <3>2, HeldKept
    <2>5. CASE InjectLoads(p)
      BY <2>5, InjectLoadsHeld
    <2>6. CASE InjectLook(p)
      <3>1. PICK place \in {"tell", "create"} : Goto(p, place)
        BY <2>6 DEF InjectLook
      <3>2. OtherCallsKeep(p) /\ call[p].at = "inject"
        BY <2>6, <3>1, GotoEffect
           DEF InjectLook, At, SenderPlaces, Injecting, Shape, Types
      <3>3. \A t \in Pids : Attached(t) => Stays(t)
        BY <2>6, <3>2 DEF InjectLook, Attached, Stays, OtherCallsKeep
      <3>4. alive' = alive /\ tracer' = tracer /\ stopped' = stopped
        BY <2>6 DEF InjectLook
      <3>5. QED BY <1>1, <3>3, <3>4, HeldKept
    <2>7. QED BY <1>2, <2>1, <2>2, <2>3, <2>4, <2>5, <2>6 DEF AgentStep
  <1>3. ASSUME NEW p \in Pids, Program(p) PROVE Held(q)'
    <2>1. CASE Die(p)
      BY <2>1, GoneHeld DEF Die
    <2>2. CASE ~ Die(p)
      <3>1. \A t \in Pids : Attached(t) => Stays(t)
        BY <1>3, <2>2, OthersStay
      <3>2. alive \subseteq alive' /\ tracer' = tracer /\ stopped' = stopped
        BY <1>3, <2>2 DEF Program, LoadByHand, PipeCall, Write, Read, Close,
                          Pclose, WriteEntry, ReadEntry, Fork, Exec, Popen
      <3>3. QED BY <1>1, <3>1, <3>2, HeldKept
    <2>3. QED BY <2>1, <2>2
  <1>4. ASSUME NEW p \in Pids, System(p) PROVE Held(q)'
    <2>1. CASE Halt(p)
      BY <1>1, <2>1 DEF Halt, Held, Channel
    <2>2. CASE Construct(p) \/ Decline(p)
      <3>1. \A t \in Pids : Attached(t) => Stays(t)
        BY <2>2, LoadStay
      <3>2. alive' = alive /\ tracer' = tracer /\ stopped' = stopped
        BY <2>2 DEF Construct, Decline
      <3>3. QED BY <1>1, <3>1, <3>2, HeldKept
    <2>3. QED BY <1>4, <2>1, <2>2 DEF System
  <1>5. CASE UNCHANGED vars
    BY <1>1, <1>5 DEF vars, Held, Channel
  <1>6. QED BY <1>2, <1>3, <1>4, <1>5 DEF Next

\* Whoever dies, and wherever: a process is stopped only while a live writer
\* is attached to it between SpInjector's constructor and its detach.
THEOREM HeldByAttacherHolds == Spec => []HeldByAttacher
  <1>1. Init => HeldByAttacher
    BY DEF Init, HeldByAttacher
  <1>2. Shape /\ HeldByAttacher /\ [Next]_vars => (Shape /\ HeldByAttacher)'
    BY StepShape, StepHeld
  <1>3. QED BY <1>1, <1>2, InitShape, PTL DEF Spec

-----------------------------------------------------------------------------
(***************************************************************************)
(* ChannelOfOpenFile: cached channels and open files go together.          *)
(***************************************************************************)
Fits(p, g) ==
  /\ Traced(p) /\ g \notin past[p].unseen
  /\ agent[p][g] # NoChannel
  => /\ file[p][g] # NoFile
     /\ file[p][g].pipe = agent[p][g].pipe

LEMMA FitsKept ==
  ASSUME NEW q \in Pids, NEW g \in Fds, Fits(q, g), agent'[q] = agent[q],
         file'[q][g] = file[q][g] \/ file[q][g] = NoFile,
         g \in past[q].unseen => g \in past'[q].unseen
  PROVE  Fits(q, g)'
  BY DEF Fits, Traced

LEMMA FitsNone ==
  ASSUME NEW q \in Pids, NEW g \in Fds,
         agent'[q] \in Untraced \union {NoCache}
  PROVE  Fits(q, g)'
  BY NoCacheType DEF Fits, Traced, Untraced

\* What a history remembers when another field of it changes.
LEMMA HistoryUnseen ==
  ASSUME NEW h \in Histories, NEW b \in BOOLEAN, NEW S \in SUBSET Fds
  PROVE  /\ [h EXCEPT !.asked = b].unseen = h.unseen
         /\ [h EXCEPT !.hushed = TRUE].unseen = h.unseen
         /\ [h EXCEPT !.unseen = S].unseen = S
  BY DEF Histories

\* The steps without a file, a cache or an agent.
LEMMA MoveFits ==
  ASSUME Shape, NEW p \in Pids,
         \/ ForkReturns(p) \/ InjectLook(p) \/ Attach(p) \/ InjectRefused(p)
         \/ Write(p) \/ Read(p) \/ Halt(p)
         \/ \E fd \in Fds : ReadEntry(p, fd),
         NEW q \in Pids, NEW g \in Fds, Fits(q, g)
  PROVE  Fits(q, g)'
  <1>1. agent' = agent /\ file' = file /\ past' = past
    BY DEF ForkReturns, InjectLook, Attach, InjectRefused, Write, Read, Halt,
           ReadEntry
  <1>2. QED BY <1>1, FitsKept

\* No channel is in the cache of an agent that comes or begins.
LEMMA LoadFits ==
  ASSUME Shape, NEW p \in Pids,
         \/ LoadByHand(p) \/ Construct(p) \/ Decline(p)
         \/ \E kept \in BOOLEAN : Exec(p, kept),
         NEW q \in Pids, NEW g \in Fds, Fits(q, g)
  PROVE  Fits(q, g)'
  <1> USE DEF Shape, Types
  <1>1. CASE q = p
    <2>1. agent'[q] \in Untraced \union {NoCache}
      BY <1>1 DEF LoadByHand, Construct, Decline, Exec, Load, Unload, AgentOK,
                  Untraced
    <2>2. QED BY <2>1, FitsNone
  <1>2. CASE q # p
    <2>1. agent'[q] = agent[q] /\ past'[q] = past[q] /\ file' = file
      BY <1>2 DEF LoadByHand, Construct, Decline, Exec, Load, Unload, AgentOK,
                  PastOK
    <2>2. QED BY <2>1, FitsKept
  <1>3. QED BY <1>1, <1>2

LEMMA PipeCallFits ==
  ASSUME Shape, NEW p \in Pids, PipeCall(p),
         NEW q \in Pids, NEW g \in Fds, Fits(q, g)
  PROVE  Fits(q, g)'
  <1> USE DEF Shape, Types
  <1> DEFINE r == Min(FreeFds(p))
             w == Min(FreeFds(p) \ {r})
  <1>1. PICK e, d : file' = [file EXCEPT ![p][r] = e, ![p][w] = d]
    BY DEF PipeCall
  <1>2. r \in FreeFds(p) /\ w \in FreeFds(p)
    <2>1. FreeFds(p) \subseteq Fds /\ FreeFds(p) # {}
      <3>1. FreeFds(p) \subseteq Fds
        BY DEF FreeFds
      <3>2. FreeFds(p) = {} => Cardinality(FreeFds(p)) = 0
        BY FS_EmptySet
      <3>3. QED BY <3>1, <3>2 DEF PipeCall
    <2>2. r \in FreeFds(p)
      BY <2>1, MinOfFds
    <2>3. FreeFds(p) # {r}
      <3>1. FreeFds(p) = {r} => Cardinality(FreeFds(p)) = 1
        BY FS_Singleton
      <3>2. QED BY <3>1 DEF PipeCall
    <2>4. QED BY <2>1, <2>2, <2>3, MinOfFds
  <1>3. file'[q][g] = file[q][g] \/ file[q][g] = NoFile
    <2>1. CASE q = p
      <3>1. file[p] \in Files
        BY DEF FileOK
      <3>2. g \notin {r, w} => file'[p][g] = file[p][g]
        <4> HIDE DEF r, w
        <4>1. file' = [file EXCEPT ![p] =
                         [[file[p] EXCEPT ![r] = e] EXCEPT ![w] = d]]
          BY <1>1 DEF FileOK
        <4>2. QED BY <3>1, <4>1 DEF FileOK, Files
      <3>3. QED BY <1>2, <2>1, <3>2 DEF FreeFds
    <2>2. CASE q # p
      <3> HIDE DEF r, w
      <3>1. QED BY <1>1, <2>2 DEF FileOK
    <2>3. QED BY <2>1, <2>2
  <1>4. agent' = agent /\ past' = past
    BY DEF PipeCall
  <1>5. QED BY <1>3, <1>4, FitsKept

LEMMA CloseFits ==
  ASSUME Shape, NEW p \in Pids, NEW fd \in Fds, Close(p, fd),
         NEW q \in Pids, NEW g \in Fds, Fits(q, g)
  PROVE  Fits(q, g)'
  <1> USE DEF Shape, Types
  <1>1. file' = [file EXCEPT ![p] = [file[p] EXCEPT ![fd] = NoFile]]
    BY DEF Close
  <1>2. \A h \in Fds \ {fd} : file'[p][h] = file[p][h]
    BY <1>1, FilesType DEF FileOK
  <1>3. CASE q # p
    <2>1. agent'[q] = agent[q] /\ past'[q] = past[q]
      BY <1>3 DEF Close, AgentOK, PastOK
    <2>2. QED BY <1>1, <1>3, <2>1, FitsKept DEF FileOK
  <1>4. CASE q = p /\ ~ Traced(p)
    BY <1>4 DEF Close, Fits, Traced
  <1>5. CASE q = p /\ Traced(p)
    <2>1. agent' = [agent EXCEPT ![p] = [agent[p] EXCEPT ![fd] = NoChannel]]
      BY <1>5 DEF Close, CloseChannel
    <2>2. PICK y : y = [agent[p] EXCEPT ![fd] = NoChannel]
      OBVIOUS
    <2>3. agent[p] \in Caches
      BY <1>5, TracedType
    <2>4. y[fd] = NoChannel /\ \A h \in Fds \ {fd} : y[h] = agent[p][h]
      BY <2>2, <2>3, CachesType
    <2>5. agent'[p] = y
      BY <2>1, <2>2 DEF AgentOK
    <2>6. past'[p].unseen = past[p].unseen \ {fd}
      <3>1. past[p] \in Histories /\ past[p].unseen \in SUBSET Fds
        BY HistoryMoves DEF PastOK
      <3>2. past'[p] = [past[p] EXCEPT !.unseen = past[p].unseen \ {fd}]
        BY <1>5 DEF Close, PastOK
      <3>3. past[p].unseen \ {fd} \in SUBSET Fds
        BY <3>1
      <3>4. QED BY <3>1, <3>2, <3>3, HistoryUnseen
    <2>7. QED BY <1>2, <1>5, <2>4, <2>5, <2>6 DEF Fits, Traced
  <1>6. QED BY <1>3, <1>4, <1>5

LEMMA PcloseFits ==
  ASSUME Shape, NEW p \in Pids, NEW fd \in Fds, Pclose(p, fd),
         NEW q \in Pids, NEW g \in Fds, Fits(q, g)
  PROVE  Fits(q, g)'
  <1> USE DEF Shape, Types
  <1>1. file' = [file EXCEPT ![p] = [file[p] EXCEPT ![fd] = NoFile]]
        /\ agent' = agent
    BY DEF Pclose
  <1>2. CASE q # p
    BY <1>1, <1>2, FitsKept DEF Pclose, FileOK, PastOK
  <1>3. CASE q = p
    <2>1. past'[p].unseen = past[p].unseen \union {fd}
      <3>1. past[p] \in Histories /\ past[p].unseen \in SUBSET Fds
        BY HistoryMoves DEF PastOK
      <3>2. past'[p] = [past[p] EXCEPT !.unseen = past[p].unseen \union {fd}]
        BY DEF Pclose, PastOK
      <3>3. past[p].unseen \union {fd} \in SUBSET Fds
        BY <3>1
      <3>4. QED BY <3>1, <3>2, <3>3, HistoryUnseen
    <2>2. g # fd => file'[p][g] = file[p][g]
      BY <1>1, FilesType DEF FileOK
    <2>3. QED BY <1>1, <1>3, <2>1, <2>2 DEF Fits, Traced
  <1>4. QED BY <1>2, <1>3

LEMMA ForkFits ==
  ASSUME Shape, NEW p \in Pids, NEW c \in Pids, Fork(p, c),
         NEW q \in Pids, NEW g \in Fds, Fits(q, g), Fits(p, g)
  PROVE  Fits(q, g)'
  <1> USE DEF Shape, Types
  <1>1. CASE q = c
    <2>1. file'[c] = file[p] /\ agent'[c] = agent[p]
      BY DEF Fork, FileOK, AgentOK
    <2>2. past'[c].unseen = past[p].unseen
      <3>1. past[p].unseen \in SUBSET Fds
        BY HistoryMoves DEF PastOK
      <3>2. past'[c] = [Birth EXCEPT !.unseen = past[p].unseen]
        BY DEF Fork, PastOK
      <3>3. Birth \in Histories
        BY BirthType DEF Fork
      <3>4. QED BY <3>1, <3>2, <3>3, HistoryUnseen
    <2>3. QED BY <1>1, <2>1, <2>2 DEF Fits, Traced
  <1>2. CASE q # c
    BY <1>2, FitsKept DEF Fork, FileOK, AgentOK, PastOK
  <1>3. QED BY <1>1, <1>2

LEMMA GoneFits ==
  ASSUME Shape, NEW p \in Pids, Gone(p),
         NEW q \in Pids, NEW g \in Fds, Fits(q, g)
  PROVE  Fits(q, g)'
  <1> USE DEF Shape, Types
  <1>1. CASE q = p
    <2>1. agent'[q] \in Untraced \union {NoCache}
      BY <1>1 DEF Gone, Unload, AgentOK, Untraced
    <2>2. QED BY <2>1, FitsNone
  <1>2. CASE q # p
    BY <1>2, FitsKept DEF Gone, Unload, FileOK, AgentOK, PastOK
  <1>3. QED BY <1>1, <1>2

\* The agent of p puts the channel of fd into its cache.
LEMMA CacheFits ==
  ASSUME Shape, NEW p \in Pids, Traced(p), NEW fd \in Fds,
         file[p][fd] # NoFile, NEW c, c = WriteChannel(p, fd),
         agent' = [agent EXCEPT ![p] = [agent[p] EXCEPT ![fd] = c]],
         file' = file, NEW q \in Pids, NEW g \in Fds, Fits(q, g),
         past'[q].unseen = past[q].unseen
  PROVE  Fits(q, g)'
  <1> USE DEF Shape, Types
  <1>1. /\ c \in Channels
        /\ agent[p][fd] = NoChannel => c.pipe = file[p][fd].pipe
        /\ agent[p][fd] # NoChannel => c = agent[p][fd]
    BY WriteChannelType
  <1>2. /\ OtherAgentsKeep(p) /\ agent'[p][fd] = c
        /\ \A h \in Fds \ {fd} : agent'[p][h] = agent[p][h]
    <2>1. PICK y : y = [agent[p] EXCEPT ![fd] = c]
      OBVIOUS
    <2>2. agent[p] \in Caches
      BY TracedType
    <2>3. y[fd] = c /\ \A h \in Fds \ {fd} : y[h] = agent[p][h]
      BY <1>1, <2>1, <2>2, CachesType
    <2>4. agent'[p] = y /\ OtherAgentsKeep(p)
      BY <2>1 DEF AgentOK, OtherAgentsKeep
    <2>5. QED BY <2>3, <2>4
  <1>3. CASE q = p /\ g = fd
    BY <1>1, <1>2, <1>3 DEF Fits
  <1>4. CASE q = p /\ g # fd
    BY <1>2, <1>4 DEF Fits
  <1>5. CASE q # p
    BY <1>2, <1>5, FitsKept DEF OtherAgentsKeep
  <1>6. QED BY <1>3, <1>4, <1>5

LEMMA WriteEntryFits ==
  ASSUME Shape, NEW p \in Pids, NEW fd \in Fds, WriteEntry(p, fd),
         NEW q \in Pids, NEW g \in Fds, Fits(q, g)
  PROVE  Fits(q, g)'
  <1>1. file' = file /\ past' = past /\ file[p][fd] # NoFile
    BY DEF WriteEntry
  <1>2. CASE Traced(p)
    <2>1. agent' = [agent EXCEPT ![p] =
                      [agent[p] EXCEPT ![fd] = WriteChannel(p, fd)]]
      BY <1>2 DEF WriteEntry
    <2>2. QED BY <1>1, <1>2, <2>1, CacheFits
  <1>3. CASE ~ Traced(p)
    BY <1>1, <1>3, FitsKept DEF WriteEntry
  <1>4. QED BY <1>2, <1>3

LEMMA PopenReturnsFits ==
  ASSUME Shape, NEW p \in Pids, PopenReturns(p),
         NEW q \in Pids, NEW g \in Fds, Fits(q, g)
  PROVE  Fits(q, g)'
  <1> USE DEF Shape, Types
  <1>1. call[p].at = "popen" /\ Traced(p)
    BY DEF PopenReturns, At, CallHasChannel, HasChannel
  <1>2. PICK fd \in Fds : fd = call[p].fd /\ file[p][fd] # NoFile
    BY <1>1, CallPipe
  <1>3. PICK c : c = WriteChannel(p, fd)
    OBVIOUS
  <1>4. /\ agent' = [agent EXCEPT ![p] = [agent[p] EXCEPT ![fd] = c]]
        /\ file' = file
        /\ past' = IF c.remote \notin alive
                     THEN past
                     ELSE [past EXCEPT ![c.remote].hushed = TRUE]
    BY <1>2, <1>3 DEF PopenReturns
  <1>5. past'[q].unseen = past[q].unseen
    <2>1. past[q] \in Histories
      BY DEF PastOK
    <2>2. past'[q] = past[q] \/ past'[q] = [past[q] EXCEPT !.hushed = TRUE]
      BY <1>4 DEF PastOK
    <2>3. QED BY <2>1, <2>2, HistoryUnseen
  <1>6. QED BY <1>1, <1>2, <1>3, <1>4, <1>5, CacheFits

LEMMA TellRemoteFits ==
  ASSUME Shape, NEW p \in Pids, TellRemote(p),
         NEW q \in Pids, NEW g \in Fds, Fits(q, g)
  PROVE  Fits(q, g)'
  <1> USE DEF Shape, Types
  <1>1. PICK r : r = Channel(p).remote
    OBVIOUS
  <1>2. past'[q].unseen = past[q].unseen
    <2>1. past[q] \in Histories
      BY DEF PastOK
    <2>2. PICK b \in BOOLEAN :
            past' = [past EXCEPT ![r] = [past[r] EXCEPT !.asked = b]]
      <3>1. (r \in alive) \in BOOLEAN
        OBVIOUS
      <3>2. past' = [past EXCEPT ![r] = [past[r] EXCEPT !.asked = r \in alive]]
        BY <1>1 DEF TellRemote
      <3>3. QED BY <3>1, <3>2
    <2>3. past'[q] = past[q] \/ past'[q] = [past[q] EXCEPT !.asked = b]
      BY <2>2 DEF PastOK
    <2>4. [past[q] EXCEPT !.asked = b].unseen = past[q].unseen
      BY <2>1 DEF Histories
    <2>5. QED BY <2>3, <2>4
  <1>3. agent' = agent /\ file' = file
    BY DEF TellRemote
  <1>4. QED BY <1>2, <1>3, FitsKept

LEMMA InjectFits ==
  ASSUME Shape, NEW p \in Pids,
         InjectFinds(p) \/ InjectLoads(p) \/ InjectLoaded(p),
         NEW q \in Pids, NEW g \in Fds, Fits(q, g)
  PROVE  Fits(q, g)'
  <1> USE DEF Shape, Types
  <1>1. /\ call[p].at \in {"attached", "loading"}
        /\ file' = file /\ past' = past
    BY DEF InjectFinds, InjectLoads, InjectLoaded, Injected, At
  <1>2. CASE InjectLoads(p)
    <2>1. PICK r \in Pids : Load(r)
      BY <1>1, <1>2, InHand DEF InjectLoads, Injecting
    <2>2. OtherAgentsKeep(r) /\ agent'[r] = Loading
      BY <2>1, LoadEffect
    <2>3. CASE q = r
      BY <2>2, <2>3, FitsNone DEF Untraced
    <2>4. CASE q # r
      BY <1>1, <2>2, <2>4, FitsKept DEF OtherAgentsKeep
    <2>5. QED BY <2>3, <2>4
  <1>3. CASE Injected(p)
    <2>1. PICK fd \in Fds : fd = call[p].fd
      BY <1>1, InHand DEF Injecting
    <2>2. /\ Traced(p) /\ Channel(p) = agent[p][fd]
          /\ agent[p][fd] \in Channels
      BY <1>1, <2>1, InHand DEF Injecting
    <2>3. /\ OtherAgentsKeep(p)
          /\ agent'[p][fd].pipe = agent[p][fd].pipe
          /\ \A h \in Fds \ {fd} : agent'[p][h] = agent[p][h]
      BY <1>1, <1>3, <2>1, <2>2, InjectedEffect DEF Injecting
    <2>4. CASE q = p
      <3>1. agent[p][fd] # NoChannel
        BY <2>2, IpcAssumption
      <3>2. QED BY <1>1, <2>2, <2>3, <2>4, <3>1 DEF Fits
    <2>5. CASE q # p
      BY <1>1, <2>3, <2>5, FitsKept DEF OtherAgentsKeep
    <2>6. QED BY <2>4, <2>5
  <1>4. QED BY <1>2, <1>3 DEF InjectFinds, InjectLoaded

LEMMA PopenFits ==
  ASSUME Shape, NEW p \in Pids, NEW c \in Pids, NEW dir \in {"r", "w"},
         NEW kept \in BOOLEAN, Popen(p, c, dir, kept),
         NEW q \in Pids, NEW g \in Fds, Fits(q, g)
  PROVE  Fits(q, g)'
  <1> USE DEF Shape, Types
  <1>1. CASE q = c
    <2>1. agent'[q] \in Untraced \union {NoCache}
      BY <1>1 DEF Popen, Load, Unload, AgentOK, Untraced
    <2>2. QED BY <2>1, FitsNone
  <1>2. CASE q # c
    <2>1. PICK fd \in FreeFds(p) : fd = Min(FreeFds(p))
      <3>1. FreeFds(p) \subseteq Fds
        BY DEF FreeFds
      <3>2. FreeFds(p) # {}
        BY DEF Popen
      <3>3. QED BY <3>1, <3>2, MinOfFds
    <2>2. PICK e, d :
            file' = [file EXCEPT ![p] = [file[p] EXCEPT ![fd] = e], ![c] = d]
      <3>1. PICK e, d : file' = [file EXCEPT ![p][fd] = e, ![c] = d]
        BY <2>1 DEF Popen
      <3>2. QED BY <3>1 DEF FileOK
    <2>3. file'[q][g] = file[q][g] \/ file[q][g] = NoFile
      <3>1. file[p] \in Files
        BY DEF FileOK
      <3>2. file'[q] = file[q] \/ (q = p /\ file'[q] = [file[p] EXCEPT ![fd] = e])
        <4> DEFINE y == [file[p] EXCEPT ![fd] = e]
        <4>1. file' = [file EXCEPT ![p] = y, ![c] = d]
          BY <2>2
        <4> HIDE DEF y
        <4>2. file'[q] = file[q] \/ (q = p /\ file'[q] = y)
          BY <1>2, <4>1 DEF FileOK
        <4>3. QED BY <4>2 DEF y
      <3>3. g # fd => [file[p] EXCEPT ![fd] = e][g] = file[p][g]
        BY <3>1 DEF Files
      <3>4. QED BY <2>1, <3>2, <3>3 DEF FreeFds
    <2>4. agent'[q] = agent[q]
      BY <1>2 DEF Popen, Load, Unload, AgentOK
    <2>5. past'[q] = past[q]
      BY <1>2 DEF Popen, PastOK
    <2>6. QED BY <2>3, <2>4, <2>5, FitsKept
  <1>3. QED BY <1>1, <1>2

LEMMA StepFits == Shape /\ ChannelOfOpenFile /\ [Next]_vars => ChannelOfOpenFile'
  <1> SUFFICES ASSUME Shape, ChannelOfOpenFile, [Next]_vars,
                      NEW q \in Pids, NEW g \in Fds
               PROVE  Fits(q, g)'
    BY DEF ChannelOfOpenFile, Fits
  <1>1. \A p \in Pids : Fits(p, g)
    BY DEF ChannelOfOpenFile, Fits
  <1>2. ASSUME NEW p \in Pids, AgentStep(p) PROVE Fits(q, g)'
    BY <1>1, <1>2, MoveFits, GoneFits, InjectFits, TellRemoteFits,
       PopenReturnsFits DEF AgentStep, AttachFails
  <1>3. ASSUME NEW p \in Pids, Program(p) PROVE Fits(q, g)'
    <2>1. CASE LoadByHand(p) \/ PipeCall(p) \/ Write(p) \/ Read(p)
      BY <1>1, <2>1, LoadFits, PipeCallFits, MoveFits
    <2>2. CASE Die(p)
      BY <1>1, <2>2, GoneFits DEF Die
    <2>3. ASSUME NEW fd \in Fds,
                 Close(p, fd) \/ Pclose(p, fd) \/ WriteEntry(p, fd)
                   \/ ReadEntry(p, fd)
          PROVE  Fits(q, g)'
      BY <1>1, <2>3, CloseFits, PcloseFits, WriteEntryFits, MoveFits
    <2>4. CASE \E c \in Pids : Fork(p, c)
      BY <1>1, <2>4, ForkFits
    <2>5. CASE \E kept \in BOOLEAN : Exec(p, kept)
      BY <1>1, <2>5, LoadFits
    <2>6. CASE \E c \in Pids, dir \in {"r", "w"}, kept \in BOOLEAN :
                 Popen(p, c, dir, kept)
      BY <1>1, <2>6, PopenFits
    <2>7. QED BY <1>3, <2>1, <2>2, <2>3, <2>4, <2>5, <2>6 DEF Program
  <1>4. ASSUME NEW p \in Pids, System(p) PROVE Fits(q, g)'
    BY <1>1, <1>4, LoadFits, MoveFits DEF System
  <1>5. CASE UNCHANGED vars
    BY <1>1, <1>5, FitsKept DEF vars
  <1>6. QED BY <1>2, <1>3, <1>4, <1>5 DEF Next

\* A descriptor closed and opened again never finds the channel of the file
\* before: the close() wrapper drops it, a fork copies both or neither, and
\* only a pclose() gets around it.
THEOREM ChannelOfOpenFileHolds == Spec => []ChannelOfOpenFile
  <1>1. Init => ChannelOfOpenFile
    BY DEF Init, ChannelOfOpenFile, Traced
  <1>2. Shape /\ ChannelOfOpenFile /\ [Next]_vars
          => (Shape /\ ChannelOfOpenFile)'
    BY StepShape, StepFits
  <1>3. QED BY <1>1, <1>2, InitShape, PTL DEF Spec

=============================================================================
