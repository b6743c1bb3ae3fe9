SPECIFICATION ScreenSpec
PROPERTY AlwaysMeasuresPattern
