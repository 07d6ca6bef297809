------------------------------ MODULE MCJpegSimd ------------------------------
EXTENDS JpegSimd
SpacesMC == {"RGB", "EXT_RGB", "EXT_RGBX", "EXT_RGBA", "EXT_BGR", "EXT_BGRX", "EXT_BGRA",
             "EXT_XBGR", "EXT_ABGR", "EXT_XRGB", "EXT_ARGB"}
ArchsMC == {"i386", "x86_64", "arm", "none"}
(* All but the one whose alignment is checked at the wrong constant.       *)
FunctionsMC == AllFunctions \ {"fdct_ifast"}
=============================================================================
