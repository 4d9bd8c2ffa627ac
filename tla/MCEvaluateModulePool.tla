------------------------ MODULE MCEvaluateModulePool ------------------------
EXTENDS EvaluateModulePool
=============================================================================
