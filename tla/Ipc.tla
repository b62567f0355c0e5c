--------------------------------- MODULE Ipc ---------------------------------
(***************************************************************************)
(* Propagation from process to process over pipes: SpIpcMgr::BeforeEntry   *)
(* and BeforeExit, the channel cache of SpIpcWorkerDelegate, SpPipeWorker  *)
(* and its start flags in shared memory, and SpInjector, which attaches to *)
(* the process at the other end and loads the agent into it.               *)
(*                                                                         *)
(* Each process runs one call at a time.  Around a traced write() the      *)
(* agent looks up or creates the channel, attaches, loads, detaches, sets  *)
(* the flag and only then lets the call go on; the processes it deals with *)
(* fork, exec, read, close files and die between any two of these steps.   *)
(***************************************************************************)
EXTENDS Integers, Sequences, FiniteSets, FiniteSetsExt

CONSTANTS
  Pids,       \* process ids, ordered as std::set<pid_t> orders them
  NoPid,      \* remote_pid of a channel with nobody else on it: -1
  Fds,        \* file descriptors, the kernel hands out the lowest free one
  Pipes,      \* inodes of pipes
  NoFile,     \* nothing is open at the descriptor
  NoChannel,  \* the channel cache has no entry
  NoAgent,    \* the agent is not among the libraries of the process
  Loading,    \* it is, and its constructor has not returned
  Inert,      \* it is, and refuses to work in this program
  Names,      \* of "libagent" and "libmyagent", what the maps show with it
  Capacity,   \* requests a pipe holds before write() blocks
  LastByHand, \* bound: programs started when it is last loaded by hand
  MaxImages   \* bound: programs started by fork, popen and exec

\* An end of a pipe, from pipe() or under the stream of a popen().
Ends == [pipe : Pipes, dir : {"r", "w"}, stream : BOOLEAN]
End(pipe, dir, stream) == [pipe |-> pipe, dir |-> dir, stream |-> stream]

\* A write channel of the cache, with the pipe it was made for.
Channels == [remote : Pids \union {NoPid}, injected : BOOLEAN, pipe : Pipes]

\* The files of a process and the write channels of its pipe worker.
Files  == [Fds -> Ends \union {NoFile}]
Caches == [Fds -> Channels \union {NoChannel}]

ASSUME IpcAssumption ==
  /\ Pids \subseteq Nat \ {0} /\ Pids # {} /\ NoPid \notin Pids
  /\ Fds \subseteq Nat /\ Capacity \in Nat \ {0} /\ MaxImages \in Nat
  /\ LastByHand \in Nat
  /\ NoFile \notin Ends
  /\ NoChannel \notin Channels
  /\ {NoAgent, Loading, Inert} \cap Caches = {}
  /\ NoAgent \notin {Loading, Inert} /\ Loading # Inert

VARIABLES
  alive,    \* the processes there are
  file,     \* file[p][fd]: the end of a pipe open there, or NoFile
  agent,    \* agent[p]: NoAgent, Loading, Inert or its write channels
  readers,  \* readers[p]: the descriptors its pipe worker has read channels for
  tracing,  \* the pids whose byte of the shared segment is 1 (start_tracing_)
  call,     \* call[p]: the library call p is in and how far it got
  tracer,   \* tracer[p]: the process attached to p with ptrace, or NoPid
  stopped,  \* the processes ptrace holds still
  data,     \* data[pipe]: the requests written and not yet read
  images,   \* programs started so far
  past      \* history, read by properties only

vars == <<alive, file, agent, readers, tracing, call, tracer, stopped, data,
          images, past>>

Empty   == [fd \in Fds |-> NoFile]
NoCache == [fd \in Fds |-> NoChannel]
Idle    == [at |-> "run"]
Untold  == <<NoPid, 0>>
Unborn  == [image |-> 0, asked |-> FALSE, hushed |-> FALSE, unseen |-> {}]
Birth   == [Unborn EXCEPT !.image = images + 1]

\* The library is in the maps of p; its pipe worker is there.
HasAgent(p) == agent[p] # NoAgent
Traced(p)   == agent[p] \notin {NoAgent, Loading, Inert}

Running(p) == p \in alive /\ p \notin stopped /\ agent[p] # Loading
At(p, place) == Running(p) /\ call[p].at = place

Holders(pipe, dirs) ==
  {q \in alive : \E fd \in Fds : /\ file[q][fd] # NoFile
                                 /\ file[q][fd].pipe = pipe
                                 /\ file[q][fd].dir \in dirs}

FreeFds(p) == {fd \in Fds : file[p][fd] = NoFile}
FreePipes  == {pipe \in Pipes : Holders(pipe, {"r", "w"}) = {}}

Init ==
  /\ alive = {Min(Pids)}
  /\ file = [p \in Pids |-> Empty]
  /\ agent = [p \in Pids |-> NoAgent]
  /\ readers = [p \in Pids |-> {}]
  /\ tracing = {}
  /\ call = [p \in Pids |-> Idle]
  /\ tracer = [p \in Pids |-> NoPid]
  /\ stopped = {}
  /\ data = [pipe \in Pipes |-> <<>>]
  /\ images = 0
  /\ past = [p \in Pids |-> Unborn]

-----------------------------------------------------------------------------
(* Loading the agent.                                                      *)

\* The library comes into the maps of q: from LD_PRELOAD, dlopen() or
\* addLibrary().  Nothing else of the program runs until its constructor
\* has returned.
Load(q) ==
  /\ agent' = [agent EXCEPT ![q] = Loading]
  /\ readers' = [readers EXCEPT ![q] = {}]

\* A program begins, or ends, without it.
Unload(q) ==
  /\ agent' = [agent EXCEPT ![q] = NoAgent]
  /\ readers' = [readers EXCEPT ![q] = {}]

\* dlopen() in the program, or the injector command run by the user.
LoadByHand(p) ==
  /\ At(p, "run")
  /\ images <= LastByHand
  /\ ~ HasAgent(p)
  /\ Load(p)
  /\ UNCHANGED <<alive, file, tracing, call, tracer, stopped, data, images,
                 past>>

\* The constructor can run in q: nobody holds q, or q is held for it.
Constructing(q) ==
  /\ q \in alive /\ agent[q] = Loading
  /\ q \in stopped => call[tracer[q]].at = "loading"

\* Slip: a new agent leaves its byte as the last owner of the pid left it.
ConstructKeepsFlag(q) ==
  /\ Constructing(q)
  /\ agent' = [agent EXCEPT ![q] = NoCache]
  /\ UNCHANGED <<alive, file, readers, tracing, call, tracer, stopped, data,
                 images, past>>

\* Go() has parsed the program and builds the IPC manager: the pipe worker
\* attaches the segment, clears its own byte and starts with empty caches.
Construct(q) ==
  /\ Constructing(q)
  /\ agent' = [agent EXCEPT ![q] = NoCache]
  /\ tracing' = tracing \ {q}
  /\ UNCHANGED <<alive, file, readers, call, tracer, stopped, data, images,
                 past>>

\* Go() returns at once in the programs of IsIllegalProgram(), such as sh.
Decline(q) ==
  /\ Constructing(q)
  /\ agent' = [agent EXCEPT ![q] = Inert]
  /\ UNCHANGED <<alive, file, readers, tracing, call, tracer, stopped, data,
                 images, past>>

-----------------------------------------------------------------------------
(* What the processes do around the agent: files, fork, exec, death.       *)

PipeCall(p) ==
  /\ At(p, "run")
  /\ Cardinality(FreeFds(p)) >= 2
  /\ \E pipe \in FreePipes :
       LET r == Min(FreeFds(p))
           w == Min(FreeFds(p) \ {r})
       IN  /\ file' = [file EXCEPT ![p][r] = End(pipe, "r", FALSE),
                                   ![p][w] = End(pipe, "w", FALSE)]
           /\ data' = [data EXCEPT ![pipe] = <<>>]
  /\ UNCHANGED <<alive, agent, readers, tracing, call, tracer, stopped, images,
                 past>>

\* Slip: a close is answered without touching the caches.
CloseChannelForgets(cache, fd) == cache

\* CloseChannel(): the write channel of the descriptor goes, and only when
\* there is none the read channel.
CloseChannel(cache, fd) == [cache EXCEPT ![fd] = NoChannel]
CloseReader(cache, read, fd) ==
  IF cache[fd] = NoChannel THEN read \ {fd} ELSE read

\* close(): BeforeEntry hands the descriptor to CloseChannel first.
Close(p, fd) ==
  /\ At(p, "run")
  /\ file[p][fd] # NoFile /\ ~ file[p][fd].stream
  /\ file' = [file EXCEPT ![p][fd] = NoFile]
  /\ IF Traced(p)
       THEN /\ agent' = [agent EXCEPT ![p] = CloseChannel(@, fd)]
            /\ readers' = [readers EXCEPT ![p] = CloseReader(agent[p], @, fd)]
            /\ past' = [past EXCEPT ![p].unseen = @ \ {fd}]
       ELSE UNCHANGED <<agent, readers, past>>
  /\ UNCHANGED <<alive, tracing, call, tracer, stopped, data, images>>

\* pclose(): the file goes and GetCloseParam never asks.
Pclose(p, fd) ==
  /\ At(p, "run")
  /\ file[p][fd] # NoFile /\ file[p][fd].stream
  /\ file' = [file EXCEPT ![p][fd] = NoFile]
  /\ past' = [past EXCEPT ![p].unseen = @ \union {fd}]
  /\ UNCHANGED <<alive, agent, readers, tracing, call, tracer, stopped, data,
                 images>>

\* Slip: both sides of the fork go through the child's branch of BeforeExit.
ForkBothReturn(p, c) ==
  /\ At(p, "run")
  /\ c \notin alive
  /\ images < MaxImages
  /\ images' = images + 1
  /\ alive' = alive \union {c}
  /\ file' = [file EXCEPT ![c] = file[p]]
  /\ agent' = [agent EXCEPT ![c] = agent[p]]
  /\ readers' = [readers EXCEPT ![c] = readers[p]]
  /\ call' = [call EXCEPT
               ![c] = IF Traced(p) THEN [at |-> "forked"] ELSE Idle,
               ![p] = IF Traced(p) THEN [at |-> "forked"] ELSE Idle]
  /\ past' = [past EXCEPT ![c] = [Birth EXCEPT !.unseen = past[p].unseen]]
  /\ UNCHANGED <<tracing, tracer, stopped, data>>

\* fork(): the child starts with a copy of everything, agent and caches
\* included, and with the exit wrapper of fork still to run.
Fork(p, c) ==
  /\ At(p, "run")
  /\ c \notin alive
  /\ images < MaxImages
  /\ images' = images + 1
  /\ alive' = alive \union {c}
  /\ file' = [file EXCEPT ![c] = file[p]]
  /\ agent' = [agent EXCEPT ![c] = agent[p]]
  /\ readers' = [readers EXCEPT ![c] = readers[p]]
  /\ call' = [call EXCEPT ![c] = IF Traced(p) THEN [at |-> "forked"] ELSE Idle]
  /\ past' = [past EXCEPT ![c] = [Birth EXCEPT !.unseen = past[p].unseen]]
  /\ UNCHANGED <<tracing, tracer, stopped, data>>

\* BeforeExit of fork in the child: SetLocalStartTracing(0).  (The parent
\* opens its log files and changes no state kept here.)
ForkReturns(p) ==
  /\ At(p, "forked")
  /\ tracing' = tracing \ {p}
  /\ call' = [call EXCEPT ![p] = Idle]
  /\ UNCHANGED <<alive, file, agent, readers, tracer, stopped, data, images,
                 past>>

\* The exec family: HandleExec puts the agent into the environment of the
\* new program for every variant but execle and execveat (kept = FALSE).  In
\* a program where the agent is inert it is there still, or never was.
Exec(p, kept) ==
  /\ At(p, "run")
  /\ HasAgent(p)
  /\ images < MaxImages
  /\ images' = images + 1
  /\ IF kept THEN Load(p) ELSE Unload(p)
  /\ past' = [past EXCEPT ![p] = Birth]
  /\ UNCHANGED <<alive, file, tracing, call, tracer, stopped, data>>

\* What is left when p is gone: its files are closed, what it traced runs
\* on.  Its byte of the segment stays as it is.
Gone(p) ==
  LET traced == {q \in Pids : tracer[q] = p} IN
  /\ alive' = alive \ {p}
  /\ file' = [file EXCEPT ![p] = Empty]
  /\ Unload(p)
  /\ call' = [call EXCEPT ![p] = Idle]
  /\ tracer' = [q \in Pids |-> IF q \in traced \union {p} THEN NoPid
                                                          ELSE tracer[q]]
  /\ stopped' = stopped \ (traced \union {p})
  /\ past' = [past EXCEPT ![p] = Unborn]

\* exit(), or a signal that kills, at any point of any call.
Die(p) ==
  /\ p \in alive
  /\ Gone(p)
  /\ UNCHANGED <<tracing, data, images>>

-----------------------------------------------------------------------------
(* write(): BeforeEntry's sender side.                                     *)

\* CreateChannel(): of the processes /proc shows with the inode open, at
\* either end, the first in pid order that is not the caller.
RemotePid(p, pipe) ==
  LET others == Holders(pipe, {"r", "w"}) \ {p}
  IN  IF others = {} THEN NoPid ELSE Min(others)

\* GetChannel(fd, SP_WRITE): what the cache has, else a new channel.  The
\* pipe it was made for is kept for the properties.
WriteChannel(p, fd) ==
  LET pipe == file[p][fd].pipe IN
  IF agent[p][fd] # NoChannel
    THEN agent[p][fd]
    ELSE [remote |-> RemotePid(p, pipe), injected |-> FALSE, pipe |-> pipe]

Channel(p) == agent[p][call[p].fd]

\* The call goes on at another place; what it announced is kept with it.
Goto(p, place) == call' = [call EXCEPT ![p].at = place]

\* An untraced process goes straight to the system call.  A traced one does
\* unless Inject() has something to do: a channel injected before needs the
\* flag only, a channel without a remote process gets nothing.
WriteEntry(p, fd) ==
  LET c == WriteChannel(p, fd)
      place == IF ~ Traced(p) \/ (~ c.injected /\ c.remote = NoPid)
                 THEN "write"
                 ELSE IF c.injected THEN "tell" ELSE "inject"
  IN
  /\ At(p, "run")
  /\ file[p][fd] # NoFile /\ file[p][fd].dir = "w"
  /\ call' = [call EXCEPT ![p] = [at |-> place, fd |-> fd, told |-> Untold]]
  /\ agent' = IF Traced(p) THEN [agent EXCEPT ![p][fd] = c] ELSE agent
  /\ UNCHANGED <<alive, file, readers, tracing, tracer, stopped, data, images,
                 past>>

\* ProcessHasLibrary(): /proc/pid/maps has a line with that text.
ProcessHasLibrary(q, text) == q \in alive /\ HasAgent(q) /\ text \in Names

\* SpPipeWorker::Inject() looks for "libagent" before it attaches.  That is
\* mapped with an agent that was linked with it, and is not in the name of
\* the agent itself.  If it is there the channel is not marked as injected,
\* and the next write looks again.
InjectLook(p) ==
  /\ At(p, "inject")
  /\ Goto(p, IF ProcessHasLibrary(Channel(p).remote, "libagent")
               THEN "tell" ELSE "create")
  /\ UNCHANGED <<alive, file, agent, readers, tracing, tracer, stopped, data,
                 images, past>>

\* ptrace takes a live process nobody traces, other than the caller: the
\* caller may stand in a channel its parent made for an earlier owner of
\* its pid.
Attachable(p, q) == q # p /\ q \in alive /\ tracer[q] = NoPid

\* SpInjector's constructor asks ptrace for the remote process.
Attach(p) ==
  /\ At(p, "create")
  /\ Attachable(p, Channel(p).remote)
  /\ tracer' = [tracer EXCEPT ![Channel(p).remote] = p]
  /\ Goto(p, "attached")
  /\ UNCHANGED <<alive, file, agent, readers, tracing, stopped, data, images,
                 past>>

\* The kernel brings the traced process to a halt some time after that.
Halt(q) ==
  /\ tracer[q] # NoPid
  /\ q \notin stopped
  /\ stopped' = stopped \union {q}
  /\ UNCHANGED <<alive, file, agent, readers, tracing, call, tracer, data,
                 images, past>>

\* It is gone or somebody else has it: the constructor calls exit(0), and
\* with it ends the program the agent is in.
AttachFails(p) ==
  /\ \/ /\ At(p, "create")
        /\ ~ Attachable(p, Channel(p).remote)
     \/ /\ At(p, "attached")
        /\ tracer[Channel(p).remote] # p
  /\ Gone(p)
  /\ UNCHANGED <<tracing, data, images>>

\* The destructor of SpInjector lets go of what p still has.
Detach(p, q) ==
  IF tracer[q] = p
    THEN /\ tracer' = [tracer EXCEPT ![q] = NoPid]
         /\ stopped' = stopped \ {q}
    ELSE UNCHANGED <<tracer, stopped>>

Holds(p, q) == tracer[q] = p /\ q \in stopped

\* Inject() has returned true: detach, mark the channel, set the flag next.
Injected(p) ==
  /\ Detach(p, Channel(p).remote)
  /\ agent' = [agent EXCEPT ![p][call[p].fd].injected = TRUE]
  /\ Goto(p, "tell")
  /\ UNCHANGED <<alive, file, readers, tracing, data, images, past>>

\* The agent is there: SpInjector::Inject() finds "libmyagent" in the maps,
\* or its name is another and dlopen() answers with what has been loaded.
\* Either way its constructor may not have run yet.
InjectFinds(p) ==
  LET q == Channel(p).remote IN
  /\ At(p, "attached")
  /\ Holds(p, q)
  /\ HasAgent(q)
  /\ Injected(p)

\* Or it is not: addLibrary() makes q run dlopen() with the agent's name.
InjectLoads(p) ==
  LET q == Channel(p).remote IN
  /\ At(p, "attached")
  /\ Holds(p, q)
  /\ ~ HasAgent(q)
  /\ Load(q)
  /\ Goto(p, "loading")
  /\ UNCHANGED <<alive, file, tracing, tracer, stopped, data, images, past>>

\* The dlopen() in q has returned, and with it the constructor.
InjectLoaded(p) ==
  LET q == Channel(p).remote IN
  /\ At(p, "loading")
  /\ Holds(p, q)
  /\ agent[q] # Loading
  /\ Injected(p)

\* Slip: the error path returns without the detach.
InjectRefusedHolding(p) ==
  LET q == Channel(p).remote IN
  /\ \/ /\ At(p, "attached")
        /\ Holds(p, q)
        /\ ~ ProcessHasLibrary(q, "libmyagent")
     \/ /\ At(p, "attached") \/ At(p, "loading")
        /\ tracer[q] # p
  /\ Goto(p, "write")
  /\ UNCHANGED <<alive, file, agent, readers, tracing, tracer, stopped, data,
                 images, past>>

\* addLibrary() fails, or the process it is for dies on the way: the channel
\* stays as it was, the next write retries.
InjectRefused(p) ==
  LET q == Channel(p).remote IN
  /\ \/ /\ At(p, "attached")
        /\ Holds(p, q)
        /\ ~ ProcessHasLibrary(q, "libmyagent")
     \/ /\ At(p, "attached") \/ At(p, "loading")
        /\ tracer[q] # p
  /\ Detach(p, q)
  /\ Goto(p, "write")
  /\ UNCHANGED <<alive, file, agent, readers, tracing, data, images, past>>

\* The image a request was announced to, if its agent was complete and it was
\* past its fork's exit.
Told(q) ==
  IF q \in alive /\ Traced(q) /\ call[q].at # "forked"
    THEN <<q, past[q].image>>
    ELSE Untold

\* SetRemoteStartTracing(1, c): a byte of the segment, whoever has the pid.
TellRemote(p) ==
  LET q == Channel(p).remote IN
  /\ At(p, "tell")
  /\ tracing' = tracing \union {q}
  /\ past' = [past EXCEPT ![q].asked = q \in alive]
  /\ call' = [call EXCEPT ![p].at = "write", ![p].told = Told(q)]
  /\ UNCHANGED <<alive, file, agent, readers, tracer, stopped, data, images>>

\* The system call: blocks on a full pipe, fails when nobody can read.
Write(p) ==
  LET pipe == file[p][call[p].fd].pipe IN
  /\ At(p, "write")
  /\ IF Holders(pipe, {"r"}) = {}
       THEN UNCHANGED data
       ELSE /\ Len(data[pipe]) < Capacity
            /\ data' = [data EXCEPT ![pipe] = Append(@, call[p].told)]
  /\ call' = [call EXCEPT ![p] = Idle]
  /\ UNCHANGED <<alive, file, agent, readers, tracing, tracer, stopped, images,
                 past>>

-----------------------------------------------------------------------------
(* read() and popen().                                                     *)

\* The receiver side of BeforeEntry: the read channel of the descriptor,
\* made if there is none, which nobody but payloads looks into.
ReadEntry(p, fd) ==
  /\ At(p, "run")
  /\ file[p][fd] # NoFile /\ file[p][fd].dir = "r"
  /\ call' = [call EXCEPT ![p] = [at |-> "read", fd |-> fd]]
  /\ readers' = IF Traced(p) THEN [readers EXCEPT ![p] = @ \union {fd}]
                             ELSE readers
  /\ UNCHANGED <<alive, file, agent, tracing, tracer, stopped, data, images,
                 past>>

\* The call returns with a request, or with end of file.
Read(p) ==
  LET pipe == file[p][call[p].fd].pipe IN
  /\ At(p, "read")
  /\ IF data[pipe] = <<>>
       THEN Holders(pipe, {"w"}) = {} /\ UNCHANGED data
       ELSE data' = [data EXCEPT ![pipe] = Tail(@)]
  /\ call' = [call EXCEPT ![p] = Idle]
  /\ UNCHANGED <<alive, file, agent, readers, tracing, tracer, stopped, images,
                 past>>

OtherDir(dir) == IF dir = "r" THEN "w" ELSE "r"

\* popen(): pipe, fork and the exec of a shell that has the other end; the
\* environment brings the agent into the shell or does not (kept).
Popen(p, c, dir, kept) ==
  /\ At(p, "run")
  /\ Traced(p)
  /\ c \notin alive
  /\ images < MaxImages
  /\ FreeFds(p) # {}
  /\ images' = images + 1
  /\ alive' = alive \union {c}
  /\ \E pipe \in FreePipes :
       LET fd == Min(FreeFds(p)) IN
       /\ file' = [file EXCEPT
                     ![p][fd] = End(pipe, dir, TRUE),
                     ![c] = [file[p] EXCEPT
                              ![fd] = End(pipe, OtherDir(dir), FALSE)]]
       /\ data' = [data EXCEPT ![pipe] = <<>>]
       /\ call' = [call EXCEPT ![p] = [at |-> "popen", fd |-> fd],
                               ![c] = Idle]
  /\ IF kept THEN Load(c) ELSE Unload(c)
  /\ past' = [past EXCEPT ![c] = Birth]
  /\ UNCHANGED <<tracing, tracer, stopped>>

\* BeforeExit of popen: a write channel for the stream, whichever way it
\* goes, and SetRemoteStartTracing(0, c).  With the child gone already that
\* is start_tracing_[-1], a byte before the segment.
PopenReturns(p) ==
  LET fd == call[p].fd
      c  == WriteChannel(p, fd)
  IN
  /\ At(p, "popen")
  /\ agent' = [agent EXCEPT ![p][fd] = c]
  /\ tracing' = tracing \ {c.remote}
  /\ past' = IF c.remote \notin alive
                THEN past
                ELSE [past EXCEPT ![c.remote].hushed = TRUE]
  /\ call' = [call EXCEPT ![p] = Idle]
  /\ UNCHANGED <<alive, file, readers, tracer, stopped, data, images>>

-----------------------------------------------------------------------------
\* What the agent does in p while the program waits for it.
AgentStep(p) ==
  \/ ForkReturns(p) \/ InjectLook(p) \/ Attach(p) \/ AttachFails(p)
  \/ InjectFinds(p) \/ InjectLoads(p) \/ InjectLoaded(p) \/ InjectRefused(p)
  \/ TellRemote(p) \/ PopenReturns(p)

Program(p) ==
  \/ LoadByHand(p) \/ PipeCall(p) \/ Write(p) \/ Read(p) \/ Die(p)
  \/ \E fd \in Fds :
       Close(p, fd) \/ Pclose(p, fd) \/ WriteEntry(p, fd) \/ ReadEntry(p, fd)
  \/ \E c \in Pids : Fork(p, c)
  \/ \E kept \in BOOLEAN : Exec(p, kept)
  \/ \E c \in Pids, dir \in {"r", "w"}, kept \in BOOLEAN :
       Popen(p, c, dir, kept)

\* What the loader and the kernel do to p.
System(p) == Construct(p) \/ Decline(p) \/ Halt(p)

Next == \E p \in Pids : AgentStep(p) \/ Program(p) \/ System(p)

Spec == Init /\ [][Next]_vars

-----------------------------------------------------------------------------
Requests == (Pids \union {NoPid}) \X (0..MaxImages)

Calls ==
  [at : {"run", "forked"}]
    \union [at : {"inject", "create", "attached", "loading", "tell", "write"},
            fd : Fds, told : Requests]
    \union [at : {"read", "popen"}, fd : Fds]

Histories == [image : 0..MaxImages, asked : BOOLEAN, hushed : BOOLEAN,
              unseen : SUBSET Fds]

\* Every variable has its type.  For tracing that means that no write ever
\* sets a byte outside the segment: nobody's pid is -1.
TypeOK ==
  /\ alive \subseteq Pids
  /\ file \in [Pids -> Files]
  /\ agent \in [Pids -> Caches \union {NoAgent, Loading, Inert}]
  /\ readers \in [Pids -> SUBSET Fds]
  /\ tracing \subseteq Pids
  /\ call \in [Pids -> Calls]
  /\ tracer \in [Pids -> Pids \union {NoPid}]
  /\ stopped \subseteq Pids
  /\ data \in [Pipes -> Seq(Requests)]
  /\ images \in 0..MaxImages
  /\ past \in [Pids -> Histories]

\* A traced program whose byte is 1 was asked to trace by a writer since
\* that program began: no byte left over from the last owner of the pid
\* starts it (but in the child of a fork that has not returned yet).
AskedToTrace ==
  \A p \in alive \cap tracing :
    Traced(p) /\ call[p].at # "forked" => past[p].asked

\* A cached write channel is for the file now open at its descriptor, unless
\* the file before it went without a close() the agent saw.
ChannelOfOpenFile ==
  \A p \in Pids, fd \in Fds :
    /\ Traced(p) /\ fd \notin past[p].unseen
    /\ agent[p][fd] # NoChannel
    => /\ file[p][fd] # NoFile
       /\ file[p][fd].pipe = agent[p][fd].pipe

\* What a read() may find, by the announcement of the request it returns.
ReadsAnnounced ==
  \A p \in Pids :
    Read(p) =>
      LET request == data[file[p][call[p].fd].pipe] IN
      /\ request # <<>>
      /\ Head(request) = <<p, past[p].image>>
      /\ ~ past[p].hushed
      => p \in tracing

\* A request that was announced to the program that reads it, when its agent
\* was complete, finds its byte at 1: nothing that happens between write()
\* and read(), other writers' injections included, resets it.  Out of this
\* are a program whose agent was still being constructed when it was told
\* (the constructor clears the byte), a child still inside fork(), a program
\* that has exec'd since, and one a popen() has told to be quiet.
AnnouncedIsTraced == [][ReadsAnnounced]_vars

\* A process is held still only by a live writer that is on its way through
\* Inject() for it: no crash of the writer, no recycled pid and no failed
\* load leaves a reader stopped behind.  (Two writers may hold each other.)
HeldByAttacher ==
  \A q \in Pids :
    /\ q \in stopped => tracer[q] # NoPid
    /\ tracer[q] # NoPid => /\ q \in alive /\ tracer[q] \in alive
                           /\ call[tracer[q]].at \in {"attached", "loading"}
                           /\ Channel(tracer[q]).remote = q
=============================================================================
