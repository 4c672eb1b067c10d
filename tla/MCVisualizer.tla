---------------------------- MODULE MCVisualizer ----------------------------
EXTENDS Visualizer
=============================================================================
