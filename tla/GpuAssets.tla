------------------------------ MODULE GpuAssets ------------------------------
(***************************************************************************)
(* The assets that live on the GPU: the table of Core/Assets/              *)
(* AssetManagement.cpp, the loaders of GraphicsResourceLoaders.cpp and a   *)
(* client that loads, unloads, reloads and draws them, over the frame      *)
(* commands of GpuFrontend.                                                *)
(*                                                                         *)
(* Everything here runs on the main thread.  A file may be missing, or its *)
(* read may fail after a block has been allocated for it.  Loading a       *)
(* program loads its shaders through the same table, one call of           *)
(* Resources::Load inside another.                                         *)
(***************************************************************************)
EXTENDS GpuFrontend, Sequences

CONSTANTS TextureKeys,
          ProgramKeys,
          Shaders        \* the shaders of each program, in loading order

Nobody == "none"  \* no program is being loaded

ShaderKeys == UNION {{Shaders[p][i] : i \in DOMAIN Shaders[p]} : p \in ProgramKeys}

ASSUME ShadersAssumption ==
  /\ \A p \in ProgramKeys : Shaders[p] \in Seq(ShaderKeys)
  /\ Nobody \notin ProgramKeys
ASSUME KeysAssumption ==
  /\ TextureKeys \cap ProgramKeys = {}
  /\ ShaderKeys \cap (TextureKeys \cup ProgramKeys) = {}

VARIABLES table,      \* me->loaded_resources: the handle of each loaded asset
          buffers,    \* buffers that the client has created and not deleted
          loading,    \* the program that TbShaderProgramLoader::create loads
          todo,       \* the shaders it has still to load
          image       \* its block of the heap (programPermutation)

vars == <<frontend, table, buffers, loading, todo, image>>

KindOf(k) == IF k \in TextureKeys THEN "texture"
             ELSE IF k \in ProgramKeys THEN "program" ELSE "shader"
Init ==
  /\ FrontendInit
  /\ table = [k \in {} |-> NoHandle]
  /\ buffers = {}
  /\ loading = Nobody
  /\ todo = <<>>
  /\ image = NoBlock

\* The main thread is between two calls of the client.
Idle == phase = "record" /\ loading = Nobody

With(k, h) == [x \in DOMAIN table \cup {k} |-> IF x = k THEN h ELSE table[x]]
Without(k) == [x \in DOMAIN table \ {k} |-> table[x]]
HandleOf(k) == Resource(KindOf(k), table[k])

\* A read that fails leaves the block that was allocated for it behind.
Lose(b) ==
  /\ heap' = heap \cup {b}
  /\ leaked' = leaked \cup {b}

-----------------------------------------------------------------------------
(* Textures *)

\* Resources::Load and TbTextureLoader::load.  CreateTexture may return an
\* invalid handle, which loadFromMemory does not look at.
LoadTexture(k) ==
  /\ Idle /\ k \notin DOMAIN table /\ HeapHasRoom
  /\ Create("texture", FreeBlock)
  /\ table' = With(k, NewHandle("texture"))
  /\ UNCHANGED <<buffers, loading, todo, image>>

\* The read fails: the new instance does not enter the table.
LoadTextureFails(k) ==
  /\ Idle /\ k \notin DOMAIN table /\ HeapHasRoom
  /\ Lose(FreeBlock)
  /\ UNCHANGED <<nHandles, queue, nPut, live, drawn, phase, dropped,
                 table, buffers, loading, todo, image>>

UnloadForgets(k) == {}  \* mutant: unload does not delete the texture

\* TbTextureLoader::unload.
UnloadTextureData(k) ==
  IF table[k] = NoHandle THEN {} ELSE {Deletion(HandleOf(k))}

\* Resources::Unload.
UnloadTexture(k) ==
  /\ Idle /\ k \in DOMAIN table
  /\ queue' = queue \cup UnloadTextureData(k)
  /\ table' = Without(k)
  /\ UNCHANGED <<nHandles, nPut, heap, live, drawn, phase, dropped, leaked,
                 buffers, loading, todo, image>>

\* Resources::Reload: unload, then load into the same instance.
ReloadTexture(k) ==
  LET h == NewHandle("texture")
      r == Resource("texture", h)
      b == FreeBlock
      fits == nPut < MaxCommands
      created == h # NoHandle /\ fits
  IN  /\ Idle /\ k \in DOMAIN table /\ HeapHasRoom
      /\ heap' = heap \cup {b}
      /\ queue' = queue \cup UnloadTextureData(k)
                        \cup (IF created THEN {Command("create", r, b)} ELSE {})
      /\ nPut' = IF created THEN nPut + 1 ELSE nPut
      /\ leaked' = IF created THEN leaked ELSE leaked \cup {b}
      /\ dropped' = IF h # NoHandle /\ ~fits THEN dropped \cup {r} ELSE dropped
      /\ nHandles' = IF h = NoHandle THEN nHandles
                     ELSE [nHandles EXCEPT !["texture"] = @ + 1]
      /\ table' = With(k, h)
      /\ UNCHANGED <<live, drawn, phase, buffers, loading, todo, image>>

\* Its load fails: the entry stays, with no texture behind it.
ReloadTextureFails(k) ==
  /\ Idle /\ k \in DOMAIN table
  /\ queue' = queue \cup UnloadTextureData(k)
  /\ table' = With(k, NoHandle)
  /\ \/ UNCHANGED <<heap, leaked>>        \* the file is missing
     \/ HeapHasRoom /\ Lose(FreeBlock)    \* the read fails
  /\ UNCHANGED <<nHandles, nPut, live, drawn, phase, dropped,
                 buffers, loading, todo, image>>

-----------------------------------------------------------------------------
(* Programs and their shaders *)

\* TbShaderProgramLoader::create, up to the loop over the shader types.
BeginProgram(p) ==
  /\ Idle /\ p \notin DOMAIN table /\ HeapHasRoom
  /\ image' = FreeBlock
  /\ heap' = heap \cup {FreeBlock}
  /\ loading' = p
  /\ todo' = Shaders[p]
  /\ UNCHANGED <<nHandles, queue, nPut, live, drawn, phase, dropped, leaked,
                 table, buffers>>

\* create fails before the loop: the file's image cannot be read, or no
\* program object is left.  The permutation is not deleted.
BeginProgramFails(p) ==
  /\ Idle /\ p \notin DOMAIN table /\ HeapHasRoom
  /\ Lose(FreeBlock)
  /\ UNCHANGED <<nHandles, queue, nPut, live, drawn, phase, dropped,
                 table, buffers, loading, todo, image>>

InLoop == phase = "record" /\ loading # Nobody /\ todo # <<>>

\* Resources::Load finds the shader in the table.
ShaderPresent ==
  /\ InLoop /\ Head(todo) \in DOMAIN table
  /\ todo' = Tail(todo)
  /\ UNCHANGED <<frontend, table, buffers, loading, image>>

\* TbShaderLoader::create.
LoadShader ==
  /\ InLoop /\ Head(todo) \notin DOMAIN table /\ HeapHasRoom
  /\ Create("shader", FreeBlock)
  /\ table' = With(Head(todo), NewHandle("shader"))
  /\ todo' = Tail(todo)
  /\ UNCHANGED <<buffers, loading, image>>

\* A shader fails to load: the program's create returns the error without
\* deleting the permutation; the shaders loaded before stay in the table.
LoadShaderFails ==
  /\ InLoop /\ Head(todo) \notin DOMAIN table
  /\ \/ /\ leaked' = leaked \cup {image}
        /\ UNCHANGED heap
     \/ /\ HeapHasRoom
        /\ leaked' = leaked \cup {image, FreeBlock}
        /\ heap' = heap \cup {FreeBlock}
  /\ loading' = Nobody
  /\ todo' = <<>>
  /\ image' = NoBlock
  /\ UNCHANGED <<nHandles, queue, nPut, live, drawn, phase, dropped,
                 table, buffers>>

\* The rest of create: the permutation is deleted, the program created.
FinishProgram ==
  LET h == NewHandle("program")
      r == Resource("program", h)
      fits == nPut < MaxCommands
  IN  /\ phase = "record" /\ loading # Nobody /\ todo = <<>>
      /\ heap' = heap \ {image}
      /\ IF h = NoHandle
         THEN UNCHANGED <<nHandles, queue, nPut, leaked, dropped>>
         ELSE /\ nHandles' = [nHandles EXCEPT !["program"] = @ + 1]
              /\ Put(Command("create", r, NoBlock), NoBlock)
              /\ dropped' = IF fits THEN dropped ELSE dropped \cup {r}
      /\ table' = With(loading, h)
      /\ loading' = Nobody
      /\ image' = NoBlock
      /\ UNCHANGED <<live, drawn, phase, buffers, todo>>

-----------------------------------------------------------------------------
(* Buffers and drawing *)

\* CreateBuffer, with or without initial data.
CreateBuffer ==
  /\ Idle
  /\ \/ HeapHasRoom /\ Create("buffer", FreeBlock)
     \/ Create("buffer", NoBlock)
  /\ buffers' = buffers \cup ({NewHandle("buffer")} \ {NoHandle})
  /\ UNCHANGED <<table, loading, todo, image>>

UpdateBuffer(h) ==
  /\ Idle /\ h \in buffers
  /\ \/ HeapHasRoom /\ Update(Resource("buffer", h), FreeBlock)
     \/ nPut < MaxCommands /\ Update(Resource("buffer", h), NoBlock)
  /\ UNCHANGED <<table, buffers, loading, todo, image>>

DeleteBuffer(h) ==
  /\ Idle /\ h \in buffers
  /\ queue' = queue \cup {Deletion(Resource("buffer", h))}
  /\ buffers' = buffers \ {h}
  /\ UNCHANGED <<nHandles, nPut, heap, live, drawn, phase, dropped, leaked,
                 table, loading, todo, image>>

\* The client draws with the loaded assets and its buffers.
DrawWith(rs) ==
  /\ Idle
  /\ Draw(rs)
  /\ UNCHANGED <<table, buffers, loading, todo, image>>

\* What the client holds, with a valid handle.
Held == {HandleOf(k) : k \in {x \in DOMAIN table : table[x] # NoHandle}}
          \cup {Resource("buffer", h) : h \in buffers}

-----------------------------------------------------------------------------
Frame ==
  /\ loading = Nobody
  /\ NextFrame \/ Shutdown \/ EndFrame \/ \E c \in queue : Execute(c)
  /\ UNCHANGED <<table, buffers, loading, todo, image>>

Next ==
  \/ \E k \in TextureKeys :
       \/ LoadTexture(k) \/ LoadTextureFails(k) \/ UnloadTexture(k)
       \/ ReloadTexture(k) \/ ReloadTextureFails(k)
  \/ \E p \in ProgramKeys : BeginProgram(p) \/ BeginProgramFails(p)
  \/ ShaderPresent \/ LoadShader \/ LoadShaderFails \/ FinishProgram
  \/ CreateBuffer
  \/ \E h \in buffers : UpdateBuffer(h) \/ DeleteBuffer(h)
  \/ DrawWith(Held)
  \/ Frame

Spec == Init /\ [][Next]_vars

-----------------------------------------------------------------------------
(* Properties *)

Pending(op) == {c.res : c \in {d \in queue : d.op = op}}

\* The resources that a command uses on the backend: a program is made of
\* the shaders that its loader found in the table.
ShadersOf(r) ==
  {HandleOf(s) : s \in {x \in ShaderKeys \cap DOMAIN table :
     /\ table[x] # NoHandle
     /\ \E p \in ProgramKeys \cap DOMAIN table :
          table[p] = r.id /\ \E i \in DOMAIN Shaders[p] : Shaders[p][i] = x}}

Uses(c) ==
  CASE c.op \in {"update", "delete"}                   -> {c.res}
    [] c.op = "render"                                 -> drawn
    [] c.op = "create" /\ c.res.kind = "program"       -> ShadersOf(c.res)
    [] OTHER                                           -> {}

\* Whatever order the commands of a frame were recorded in, each finds what
\* it uses on the backend: programs come after their shaders, updates and
\* draw calls after the creations and before the deletions.  The exception
\* is a resource whose creation was dropped by a full command buffer.
UseFindsResource ==
  phase = "execute" =>
    \A c \in queue : IsNext(c) => Uses(c) \subseteq live \cup dropped

\* What the client holds exists, or will once the frame is executed, unless
\* its creation was dropped, and is not about to be deleted; and everything
\* that exists, or will, has an owner or is about to be deleted: an attempt to
\* load a program that fails loses none of its shaders, and the next attempt
\* makes none a second time.
ResourcesExact ==
  phase # "off" =>
    /\ Held \subseteq live \cup Pending("create") \cup dropped
    /\ Held \cap Pending("delete") = {}
    /\ live \cup Pending("create") \subseteq Held \cup Pending("delete")

\* Each block of the temporary heap is released exactly once: it belongs to
\* one command that has not executed, or to the program being loaded, or a
\* failed read, a failed shader or program or a lost command has leaked it.
TempExact ==
  /\ heap = leaked \cup BlockOf(image) \cup UNION {BlockOf(c.mem) : c \in queue}
  /\ leaked \cap (BlockOf(image) \cup UNION {BlockOf(c.mem) : c \in queue}) = {}
  /\ \A c, d \in queue : c # d => BlockOf(c.mem) \cap BlockOf(d.mem) = {}
  /\ \A c \in queue : image \notin BlockOf(c.mem)
=============================================================================
