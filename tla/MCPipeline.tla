------------------------------ MODULE MCPipeline ------------------------------
\* Instances of Pipeline for TLC.
EXTENDS Pipeline

\* The indices of the two sensors.
Depth == 0
Gyro == 1
DepthAndGyro == {Depth, Gyro}
DepthOnly == {Depth}
===============================================================================
