----------------------------- MODULE MCGpuAssets -----------------------------
(***************************************************************************)
(* A small instance of GpuAssets: one texture, one program of two shaders, *)
(* few handles and commands so that each table and buffer runs full.       *)
(***************************************************************************)
EXTENDS GpuAssets

CONSTANTS tex, prog, vs, ps

MCMax == [k \in Kinds |-> CASE k = "texture" -> 3
                            [] k = "shader" -> 2
                            [] OTHER -> 1]
MCShaders == [p \in {prog} |-> <<vs, ps>>]
=============================================================================
