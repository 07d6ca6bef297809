------------------------------ MODULE JpegSimd ------------------------------
(***************************************************************************)
(* simd/jsimd_*.c and jsimd_none.c: which SIMD routine does an operation.  *)
(* The library asks jsimd_can_X() when it sets up a stage and calls        *)
(* jsimd_X() for the data, and both look at simd_support, a static of the  *)
(* process that the first jsimd_can_X() of any thread fills in, and at the *)
(* alignment of the constants the routine loads.                           *)
(*                                                                         *)
(* An operation is its function and the colour space of the pixels, which  *)
(* selects the layout of the routine.  For each architecture a definition  *)
(* per group of operations lists what jsimd_can_X() accepts and what       *)
(* jsimd_X() calls, the first entry that is usable wins.  Widths of types, *)
(* which the build fixes, are as the build has them.                       *)
(***************************************************************************)
EXTENDS Naturals, Sequences, FiniteSets

CONSTANTS Threads,
          Archs,    \* a subset of {"i386", "x86_64", "arm", "none"}
          Functions,\* the operations considered
          Spaces    \* colour spaces of the pixels

VARIABLES arch, cpu,      \* the instruction sets of this machine
          env,            \* the environment variable JSIMD_FORCE... that is set, or ""
          op,             \* the operation all threads perform
          misaligned,     \* constants the linker did not put on a 16 byte boundary
          simd_support,   \* the static; Unset is ~0
          pc, seen, ran   \* per thread: its next step, simd_support when it asked, the last routine

simdVars == <<arch, cpu, env, op, misaligned, simd_support, pc, seen, ran>>

Unset == {"unset"}
Nothing == [isa |-> "none", const |-> "none", layout |-> "none"]

R(isa, const) == [isa |-> isa, const |-> const, layout |-> "none"]
Plain(isa) == R(isa, "none")
Both(list) == [can |-> list, run |-> list]
Never == Both(<<>>)

-----------------------------------------------------------------------------
(* The tables of pixel layouts: which bytes of a pixel are red, green and  *)
(* blue, and its size.                                                     *)
Offsets(space) ==
  CASE space \in {"RGB", "EXT_RGB"} -> <<0, 1, 2, 3>>
    [] space \in {"EXT_RGBX", "EXT_RGBA"} -> <<0, 1, 2, 4>>
    [] space = "EXT_BGR" -> <<2, 1, 0, 3>>
    [] space \in {"EXT_BGRX", "EXT_BGRA"} -> <<2, 1, 0, 4>>
    [] space \in {"EXT_XBGR", "EXT_ABGR"} -> <<3, 2, 1, 4>>
    [] space \in {"EXT_XRGB", "EXT_ARGB"} -> <<1, 2, 3, 4>>

(* What the routines named after a layout do.                              *)
LayoutOffsets ==
  [rgb |-> <<0, 1, 2, 3>>, extrgb |-> <<0, 1, 2, 3>>, extrgbx |-> <<0, 1, 2, 4>>,
   extbgr |-> <<2, 1, 0, 3>>, extbgrx |-> <<2, 1, 0, 4>>,
   extxbgr |-> <<3, 2, 1, 4>>, extxrgb |-> <<1, 2, 3, 4>>]

(* The switch in each conversion. *)
layout(space, default) ==
  CASE space = "EXT_RGB" -> "extrgb"
    [] space \in {"EXT_RGBX", "EXT_RGBA"} -> "extrgbx"
    [] space = "EXT_BGR" -> "extbgr"
    [] space \in {"EXT_BGRX", "EXT_BGRA"} -> "extbgrx"
    [] space \in {"EXT_XBGR", "EXT_ABGR"} -> "extxbgr"
    [] space \in {"EXT_XRGB", "EXT_ARGB"} -> "extxrgb"
    [] OTHER -> default

Laid(list, default) ==
  [i \in DOMAIN list |-> [list[i] EXCEPT !.layout = layout(op.space, default)]]

Conversions == {"rgb_ycc_convert", "rgb_gray_convert", "ycc_rgb_convert"}
Downsampling == {"h2v2_downsample", "h2v1_downsample"}
Upsampling == {"h2v2_upsample", "h2v1_upsample"}
Fancy == {"h2v2_fancy_upsample", "h2v1_fancy_upsample"}
Merged == {"h2v2_merged_upsample", "h2v1_merged_upsample"}
Reduced == {"idct_2x2", "idct_4x4"}
OnPixels == Conversions \cup Merged
AllFunctions ==
  OnPixels \cup Downsampling \cup Upsampling \cup Fancy \cup Reduced \cup
  {"convsamp", "convsamp_float", "fdct_islow", "fdct_ifast", "fdct_float",
   "quantize", "quantize_float", "idct_islow", "idct_ifast", "idct_float"}

-----------------------------------------------------------------------------
(* i386: SSE2 where the constants are aligned, else MMX; the floating      *)
(* point operations have SSE and 3DNow! instead of MMX.                    *)
i386_can_convert(f) == <<R("SSE2", f), Plain("MMX")>>
i386_convert(f, default) == Laid(<<R("SSE2", f), Plain("MMX")>>, default)
i386_downsample == Both(<<Plain("SSE2"), Plain("MMX")>>)
i386_upsample == Both(<<Plain("SSE2"), Plain("MMX")>>)
i386_fancy_upsample == Both(<<R("SSE2", "fancy_upsample"), Plain("MMX")>>)
i386_can_merged_upsample == <<R("SSE2", "merged_upsample"), Plain("MMX")>>
i386_merged_upsample == Laid(<<R("SSE2", "merged_upsample"), Plain("MMX")>>, "rgb")
i386_convsamp(f) ==
  Both(IF f = "convsamp" THEN <<Plain("SSE2"), Plain("MMX")>>
       ELSE <<Plain("SSE2"), Plain("SSE"), Plain("3DNOW")>>)

i386_can_fdct(f) ==
  IF f = "fdct_float" THEN <<R("SSE", f), Plain("3DNOW")>> ELSE <<R("SSE2", f), Plain("MMX")>>

(* fdct_ifast looks at the constants of fdct_islow and loads its own.      *)
i386_fdct(f) ==
  IF f = "fdct_float" THEN <<R("SSE", f), Plain("3DNOW")>>
  ELSE <<R("SSE2", "fdct_islow"), Plain("MMX")>>

i386_quantize(f) ==
  Both(IF f = "quantize" THEN <<Plain("SSE2"), Plain("MMX")>>
       ELSE <<Plain("SSE2"), Plain("SSE"), Plain("3DNOW")>>)
\* mutant: jsimd_X() does without the check of jsimd_can_X() for MMX
i386_idct_redNoMMX == [can |-> <<R("SSE2", "idct_red"), Plain("MMX")>>, run |-> <<R("SSE2", "idct_red")>>]

i386_idct_red == Both(<<R("SSE2", "idct_red"), Plain("MMX")>>)
i386_idct(f) ==
  Both(IF f = "idct_float"
       THEN <<R("SSE2", "idct_float_sse2"), R("SSE", "idct_float_sse"), Plain("3DNOW")>>
       ELSE <<R("SSE2", f), Plain("MMX")>>)

i386(f) ==
  CASE f \in {"rgb_ycc_convert", "rgb_gray_convert", "ycc_rgb_convert"} ->
         [can |-> i386_can_convert(f), run |-> i386_convert(f, "rgb")]
    [] f \in Downsampling -> i386_downsample
    [] f \in Upsampling -> i386_upsample
    [] f \in Fancy -> i386_fancy_upsample
    [] f \in Merged -> [can |-> i386_can_merged_upsample, run |-> i386_merged_upsample]
    [] f \in {"convsamp", "convsamp_float"} -> i386_convsamp(f)
    [] f \in {"fdct_islow", "fdct_ifast", "fdct_float"} ->
         [can |-> i386_can_fdct(f), run |-> i386_fdct(f)]
    [] f \in {"quantize", "quantize_float"} -> i386_quantize(f)
    [] f \in Reduced -> i386_idct_red
    [] OTHER -> i386_idct(f)

-----------------------------------------------------------------------------
(* x86_64: SSE2 is always there, only jsimd_can_X() looks at alignment.    *)
Always(const) == [can |-> <<R("SSE2", const)>>, run |-> <<Plain("SSE2")>>]

x86_64_can_convert(f) == <<R("SSE2", f)>>
x86_64_convert(default) == Laid(<<Plain("SSE2")>>, default)
x86_64_downsample == Both(<<Plain("SSE2")>>)
x86_64_upsample == Both(<<Plain("SSE2")>>)
x86_64_fancy_upsample == Always("fancy_upsample")
x86_64_can_merged_upsample == <<R("SSE2", "merged_upsample")>>
x86_64_merged_upsample == Laid(<<Plain("SSE2")>>, "rgb")
x86_64_convsamp == Both(<<Plain("SSE2")>>)
x86_64_fdct(f) == Always(f)
x86_64_quantize == Both(<<Plain("SSE2")>>)
x86_64_idct_red == Always("idct_red")
x86_64_idct(f) == Always(IF f = "idct_float" THEN "idct_float_sse2" ELSE f)

x86_64(f) ==
  CASE f \in {"rgb_ycc_convert", "rgb_gray_convert", "ycc_rgb_convert"} ->
         [can |-> x86_64_can_convert(f), run |-> x86_64_convert("rgb")]
    [] f \in Downsampling -> x86_64_downsample
    [] f \in Upsampling -> x86_64_upsample
    [] f \in Fancy -> x86_64_fancy_upsample
    [] f \in Merged -> [can |-> x86_64_can_merged_upsample, run |-> x86_64_merged_upsample]
    [] f \in {"convsamp", "convsamp_float"} -> x86_64_convsamp
    [] f \in {"fdct_islow", "fdct_ifast", "fdct_float"} -> x86_64_fdct(f)
    [] f \in {"quantize", "quantize_float"} -> x86_64_quantize
    [] f \in Reduced -> x86_64_idct_red
    [] OTHER -> x86_64_idct(f)

-----------------------------------------------------------------------------
(* ARM: some operations have a NEON routine, the others none at all.       *)
arm_convert(f) ==
  IF f = "rgb_gray_convert" THEN Never
  ELSE [can |-> <<Plain("NEON")>>, run |-> Laid(<<Plain("NEON")>>, "extrgb")]
arm_sample == Never
arm_fancy_upsample(f) == IF f = "h2v1_fancy_upsample" THEN Both(<<Plain("NEON")>>) ELSE Never
arm_forward(f) ==
  IF f \in {"convsamp", "fdct_ifast", "quantize"} THEN Both(<<Plain("NEON")>>) ELSE Never
arm_inverse(f) == IF f # "idct_float" THEN Both(<<Plain("NEON")>>) ELSE Never

arm(f) ==
  CASE f \in Conversions -> arm_convert(f)
    [] f \in Downsampling \cup Upsampling \cup Merged -> arm_sample
    [] f \in Fancy -> arm_fancy_upsample(f)
    [] f \in {"idct_2x2", "idct_4x4", "idct_islow", "idct_ifast", "idct_float"} -> arm_inverse(f)
    [] OTHER -> arm_forward(f)

(* Without SIMD every answer is no and every routine empty. *)
none(f) == Never

Selection(a, f) ==
  CASE a = "i386" -> i386(f) [] a = "x86_64" -> x86_64(f) [] a = "arm" -> arm(f)
    [] a = "none" -> none(f)

-----------------------------------------------------------------------------

Usable(r, support) == r.isa \in support /\ r.const \notin misaligned

FirstUsable(list, support) ==
  LET usable == {i \in DOMAIN list : Usable(list[i], support)}
  IN IF usable = {} THEN Nothing ELSE list[CHOOSE i \in usable : \A j \in usable : i <= j]

(* What the processor must have, and the constants it loads: x86_64 has    *)
(* looked at those earlier, and the ifast routine loads its own.           *)
Loads(f, r) ==
  IF r.isa # "SSE2" \/ f \notin {"fdct_ifast"} THEN r.const ELSE f

Forced(support) ==
  CASE env = "FORCEMMX" -> support \cap {"MMX"}
    [] env = "FORCE3DNOW" -> support \cap {"3DNOW", "MMX"}
    [] env = "FORCESSE" -> support \cap {"SSE", "MMX"}
    [] env = "FORCESSE2" -> support \cap {"SSE2"}
    [] OTHER -> support

ForcedArm(support) ==
  CASE env = "FORCE_ARM_NEON" -> support \cap {"NEON"}
    [] env = "FORCE_NO_SIMD" -> {}
    [] OTHER -> support

Cpus(a) ==
  CASE a = "i386" -> {{}, {"MMX"}, {"MMX", "3DNOW"}, {"MMX", "SSE"}, {"MMX", "SSE", "SSE2"}}
    [] a = "x86_64" -> {{"MMX", "SSE", "SSE2"}}
    [] a = "arm" -> {{}, {"NEON"}}
    [] a = "none" -> {{}}

Envs(a) ==
  CASE a = "i386" -> {"", "FORCEMMX", "FORCE3DNOW", "FORCESSE", "FORCESSE2"}
    [] a = "arm" -> {"", "FORCE_ARM_NEON", "FORCE_NO_SIMD"}
    [] OTHER -> {""}

Ops == [fn : Functions \cap OnPixels, space : Spaces]
         \cup [fn : Functions \ OnPixels, space : {"RGB"}]

ConstsOf(f) ==
  ({Selection(arch, f).can[i].const : i \in DOMAIN Selection(arch, f).can} \cup
   {Selection(arch, f).run[i].const : i \in DOMAIN Selection(arch, f).run}) \ {"none"}

SimdInit ==
  /\ arch \in Archs /\ cpu \in Cpus(arch) /\ env \in Envs(arch) /\ op \in Ops
  /\ misaligned \in SUBSET ConstsOf(op.fn)
  /\ simd_support = IF arch \in {"i386", "arm"} THEN Unset ELSE cpu
  /\ pc = [t \in Threads |-> "start"]
  /\ seen = [t \in Threads |-> Unset] /\ ran = [t \in Threads |-> Nothing]

Goto(t, next) == pc' = [pc EXCEPT ![t] = next]
Fixed == UNCHANGED <<arch, cpu, env, op, misaligned>>

(* init_simd(), a statement at a time. *)
Check(t) ==
  /\ pc[t] = "start"
  /\ Goto(t, IF simd_support = Unset THEN "detect" ELSE "ask")
  /\ UNCHANGED <<simd_support, seen, ran>> /\ Fixed

Detect(t) ==
  /\ pc[t] = "detect"
  /\ IF arch = "arm" THEN simd_support' = {} /\ Goto(t, "parse")
     ELSE simd_support' = cpu /\ Goto(t, "mask")
  /\ UNCHANGED <<seen, ran>> /\ Fixed

(* /proc/cpuinfo is read anew, with a larger buffer, after a line that did *)
(* not fit.  (The limit of 1 MB for a line of it is never reached.)        *)
parse_proc_cpuinfo(t) ==
  /\ pc[t] = "parse"
  /\ \/ simd_support' = cpu /\ Goto(t, "mask")
     \/ simd_support' = {} /\ Goto(t, "parse")
  /\ UNCHANGED <<seen, ran>> /\ Fixed

Mask(t) ==
  /\ pc[t] = "mask"
  /\ simd_support' = IF arch = "arm" THEN ForcedArm(simd_support) ELSE Forced(simd_support)
  /\ Goto(t, "ask")
  /\ UNCHANGED <<seen, ran>> /\ Fixed

Ask(t) ==
  /\ pc[t] = "ask"
  /\ seen' = [seen EXCEPT ![t] = simd_support]
  /\ LET can == FirstUsable(Selection(arch, op.fn).can, simd_support) # Nothing IN
       Goto(t, IF can THEN "run" ELSE "plain")
  /\ UNCHANGED <<simd_support, ran>> /\ Fixed

Run(t) ==
  /\ pc[t] = "run"
  /\ ran' = [ran EXCEPT ![t] = FirstUsable(Selection(arch, op.fn).run, simd_support)]
  /\ Goto(t, "done")
  /\ UNCHANGED <<simd_support, seen>> /\ Fixed

(* The next stage of this thread, or the same one of another image. *)
Again(t) ==
  /\ pc[t] \in {"done", "plain"}
  /\ seen' = [seen EXCEPT ![t] = Unset] /\ ran' = [ran EXCEPT ![t] = Nothing]
  /\ pc' = [pc EXCEPT ![t] = "start"]
  /\ UNCHANGED simd_support /\ Fixed

SimdNext ==
  \E t \in Threads : Check(t) \/ Detect(t) \/ parse_proc_cpuinfo(t) \/ Mask(t) \/ Ask(t)
                       \/ Run(t) \/ Again(t)
SimdSpec == SimdInit /\ [][SimdNext]_simdVars

-----------------------------------------------------------------------------
(* A routine that is called exists for this processor, and its constants   *)
(* are where its aligned loads need them: jsimd_i386.c:24-27.  (On x86_64  *)
(* jsimd_can_X() has answered for both.)                                   *)
RoutineFits ==
  \A t \in Threads : ran[t] # Nothing =>
    ran[t].isa \in cpu /\ Loads(op.fn, ran[t]) \notin misaligned

(* What jsimd_can_X() promised, jsimd_X() does: the data is processed.     *)
(* The comments at jsimd_i386.c:37 and jsimd_arm.c:97 call init_simd()     *)
(* racy: the promise holds if simd_support is still what it was then, and  *)
(* on x86 in any case, as long as no variable forces anything.             *)
Served ==
  \A t \in Threads :
    pc[t] = "run" /\ (simd_support = seen[t] \/ (arch # "arm" /\ env = "")) =>
      FirstUsable(Selection(arch, op.fn).run, simd_support) # Nothing

(* The routine reads and writes the bytes of a pixel that the colour space *)
(* of jmorecfg.h says.                                                     *)
LayoutRight ==
  \A t \in Threads :
    ran[t] # Nothing /\ op.fn \in OnPixels => LayoutOffsets[ran[t].layout] = Offsets(op.space)

(* Whatever the processor and the threads, what jsimd_can_X() promises     *)
(* jsimd_X() does: with a routine the processor has, with constants that   *)
(* are aligned, for the order of colours asked for.                        *)
DispatchSound ==
  /\ RoutineFits
  /\ Served
  /\ LayoutRight
=============================================================================
