SPECIFICATION Spec
INVARIANTS BranchFreeIsExact PayloadAndTagAgree SizesCoverTails SearchesAreTight NoiseIsCovered
CHECK_DEADLOCK FALSE
