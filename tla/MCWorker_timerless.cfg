SPECIFICATION TimerlessSpec
CONSTANTS
  Pids = {p1, p2}
  NoProc = NoProc
  MaxCalls = 2
  MaxNoise = 2
  Target = {"chatter", "die"}
  Stray = {"die"}
PROPERTIES EndsWithoutTimer
