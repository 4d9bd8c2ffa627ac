---------------------- MODULE MCDecompilationPipeline ----------------------
EXTENDS DecompilationPipeline

\* The bounds are the code's own.
MCGroups == <<3, 4>>
=============================================================================
