----------------------------- MODULE GpuFrontend -----------------------------
(***************************************************************************)
(* The frame commands of GPU/Private/Frontend/Frontend.cpp.  The main      *)
(* thread issues a handle at once and records a command; NextFrame sorts   *)
(* the frame's commands by type and handle, whatever order they were       *)
(* recorded in, and executes them on the backend.  Initial data travels in *)
(* blocks of the temporary heap, released when the command has executed.   *)
(*                                                                         *)
(* With LLGL_MULTITHREADED = 0 (graphics_config.h) there is one frame,     *)
(* recorded and executed in turn on the main thread.  std::sort leaves     *)
(* commands with equal keys in any order.                                  *)
(*                                                                         *)
(* This module has the operations; GpuAssets composes them with the asset  *)
(* loaders that call them.                                                 *)
(***************************************************************************)
EXTENDS Integers

CONSTANTS MaxHandles,   \* handles of each kind (LLGL_MAX_TEXTURES, ...)
          MaxCommands,  \* commands that fit in a frame's command buffer
          Blocks        \* blocks of the temporary heap

Kinds == {"texture", "buffer", "shader", "program"}

ASSUME MaxHandlesAssumption == MaxHandles \in [Kinds -> Nat]
ASSUME MaxCommandsAssumption == MaxCommands \in Nat
ASSUME BlocksAssumption == Blocks \subseteq Nat \ {0}

VARIABLES nHandles,  \* handles given out of each kind (bx::HandleAlloc)
          queue,     \* the frame's commands (frame_context._sort_items)
          nPut,      \* commands in the frame's command buffer
          heap,      \* blocks taken from MemoryHeaps::temporary()
          live,      \* resources that exist on the backend
          drawn,     \* resources that the frame's draw calls refer to
          phase,     \* "record", "execute" or, after Shutdown, "off"
          dropped,   \* history: resources whose creation found no room
          leaked     \* history: blocks that nothing refers to any more

frontend == <<nHandles, queue, nPut, heap, live, drawn, phase, dropped, leaked>>

NoHandle == 0   \* an invalid handle; valid ones are 1 .. MaxHandles[kind]
NoBlock == 0    \* no initial data, or data inside the command buffer

Resource(kind, h) == [kind |-> kind, id |-> h]

\* mutant: resources are destroyed before the frame is drawn
DeletesFirst(op, kind) ==
  CASE op = "create" /\ kind = "texture" -> 1
    [] op = "create" /\ kind = "buffer"  -> 2
    [] op = "create" /\ kind = "shader"  -> 3
    [] op = "create" /\ kind = "program" -> 4
    [] op = "delete" /\ kind = "buffer"  -> 5
    [] op = "delete" /\ kind = "texture" -> 6
    [] op = "update"                     -> 7
    [] op = "render"                     -> 8
    [] OTHER                             -> 9

\* EFrameCommandType, in the order of the enumerators.  Shaders and programs
\* are never deleted by the code that creates them.
CommandType(op, kind) ==
  CASE op = "create" /\ kind = "texture" -> 1
    [] op = "create" /\ kind = "buffer"  -> 2
    [] op = "create" /\ kind = "shader"  -> 3
    [] op = "create" /\ kind = "program" -> 4
    [] op = "update"                     -> 5
    [] op = "render"                     -> 6
    [] op = "delete" /\ kind = "buffer"  -> 7
    [] op = "delete" /\ kind = "texture" -> 8
    [] OTHER                             -> 9

Command(op, r, mem) == [op |-> op, res |-> r, mem |-> mem]
NoResource == Resource("program", 0)

\* encodeFrameCommandSortKey and the Compare of NwRenderContext::Sort.
Before(c, d) ==
  LET tc == CommandType(c.op, c.res.kind)
      td == CommandType(d.op, d.res.kind)
  IN  tc < td \/ (tc = td /\ c.res.id < d.res.id)

-----------------------------------------------------------------------------
FrontendInit ==
  /\ nHandles = [k \in Kinds |-> 0]
  /\ queue = {}
  /\ nPut = 0
  /\ heap = {}
  /\ live = {}
  /\ drawn = {}
  /\ phase = "record"
  /\ dropped = {}
  /\ leaked = {}

\* NGpu::Allocate: a block of the temporary heap that nobody holds.
FreeBlock == CHOOSE b \in Blocks : b \notin heap
HeapHasRoom == \E b \in Blocks : b \notin heap
BlockOf(mem) == {mem} \ {NoBlock}

\* addFrameCommand for a command with a body.  The callers ignore the error
\* of a full command buffer: the command is lost, its data is never released.
Put(command, mem) ==
  IF nPut < MaxCommands
  THEN /\ queue' = queue \cup {command}
       /\ nPut' = nPut + 1
       /\ UNCHANGED leaked
  ELSE /\ leaked' = leaked \cup BlockOf(mem)
       /\ UNCHANGED <<queue, nPut>>

RecyclingHandle(kind) ==  \* mutant: the handle of a deleted resource is free
  LET taken == {r.id : r \in {q \in live : q.kind = kind}}
  IN  IF \E h \in 1 .. MaxHandles[kind] : h \notin taken
      THEN CHOOSE h \in 1 .. MaxHandles[kind] : h \notin taken
      ELSE NoHandle

\* bx::HandleAlloc::alloc: the next handle; the frontend never calls free.
NewHandle(kind) ==
  IF nHandles[kind] < MaxHandles[kind] THEN nHandles[kind] + 1 ELSE NoHandle

\* CreateTexture, CreateBuffer, CreateShader and CreateProgram, on a block
\* of initial data taken from the heap just before (or NoBlock).
Create(kind, mem) ==
  LET h == NewHandle(kind)
      r == Resource(kind, h)
  IN  /\ heap' = heap \cup BlockOf(mem)
      /\ IF h = NoHandle
         THEN /\ leaked' = leaked \cup BlockOf(mem)
              /\ UNCHANGED <<nHandles, queue, nPut, dropped>>
         ELSE /\ nHandles' = [nHandles EXCEPT ![kind] = @ + 1]
              /\ Put(Command("create", r, mem), mem)
              /\ dropped' = IF nPut < MaxCommands THEN dropped
                            ELSE dropped \cup {r}
      /\ UNCHANGED <<live, drawn, phase>>

\* updateBuffer (mem is a block) and updateGlobalBuffer (NoBlock).
Update(r, mem) ==
  /\ heap' = heap \cup BlockOf(mem)
  /\ Put(Command("update", r, mem), mem)
  /\ UNCHANGED <<nHandles, live, drawn, phase, dropped>>

\* addResourceDeletionCommand: needs no room in the command buffer.
Deletion(r) == Command("delete", r, NoBlock)

\* Draw calls are recorded in the main context.
Draw(rs) ==
  /\ drawn' = drawn \cup rs
  /\ UNCHANGED <<nHandles, queue, nPut, heap, live, phase, dropped, leaked>>

\* NextFrame, and Shutdown before it calls NextFrame.
NextFrame ==
  /\ phase = "record"
  /\ queue' = queue \cup {Command("render", NoResource, NoBlock)}
  /\ phase' = "execute"
  /\ UNCHANGED <<nHandles, nPut, heap, live, drawn, dropped, leaked>>

Shutdown ==
  /\ phase = "record"
  /\ queue' = queue \cup {Command("render", NoResource, NoBlock),
                          Command("shutdown", NoResource, NoBlock)}
  /\ phase' = "execute"
  /\ UNCHANGED <<nHandles, nPut, heap, live, drawn, dropped, leaked>>

\* The command that comes next in some order that the sort may produce.
IsNext(c) == c \in queue /\ \A d \in queue : ~Before(d, c)

ReleasedExceptUpdates(c) ==  \* mutant: an update does not release its data
  IF c.op = "update" THEN {} ELSE BlockOf(c.mem)

\* releaseMemory, called once the command has executed.
Released(c) == BlockOf(c.mem)

\* One turn of the loop of sortAndExecuteFrameCommands_RT.
Execute(c) ==
  /\ phase = "execute"
  /\ IsNext(c)
  /\ queue' = queue \ {c}
  /\ heap' = heap \ Released(c)
  /\ live' = CASE c.op = "create"   -> live \cup {c.res}
               [] c.op = "delete"   -> live \ {c.res}
               [] c.op = "shutdown" -> {}
               [] OTHER             -> live
  /\ drawn' = IF c.op = "render" THEN {} ELSE drawn
  /\ phase' = IF c.op = "shutdown" THEN "off" ELSE phase
  /\ UNCHANGED <<nHandles, nPut, dropped, leaked>>

\* NwRenderContext::reset at the end of the frame.
EndFrame ==
  /\ phase = "execute"
  /\ queue = {}
  /\ phase' = "record"
  /\ nPut' = 0
  /\ UNCHANGED <<nHandles, queue, heap, live, drawn, dropped, leaked>>
=============================================================================
