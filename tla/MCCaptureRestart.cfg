SPECIFICATION CaptureSpec
CONSTANTS
  Ring = 8
  FrameMod = 16
  Nominal = 2
  Target = 3
  Margin = 0
  Window = 2
  Stopped = 2
  MaxFpgaResets = 1

PROPERTIES DeliveredAreFresh
