SPECIFICATION Spec
CONSTANT Steps = 4
PROPERTY JitterWithinPercent
