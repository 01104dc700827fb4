--------------------------- MODULE MCChartHistory ---------------------------
\* Instances of ChartHistory.
EXTENDS ChartHistory
=============================================================================
